---- MODULE Spec2Model ----
(***************************************************************************)
(* The template editor of my-okzest-frontend: the editor shell (App.tsx),  *)
(* the canvas surface (CanvasEditor), the per-target pointer gesture       *)
(* controllers (DraggableElement, BackgroundImage) and the properties      *)
(* panel operations that create elements and change the canvas.            *)
(***************************************************************************)
EXTENDS Integers, Sequences, FiniteSets, TLC

(***************************************************************************)
(* JavaScript numbers.  A missing property reads as undefined, arithmetic  *)
(* on undefined yields NaN, and both are falsy.  Both are kept apart from  *)
(* every number the model computes.                                        *)
(***************************************************************************)
Undef == 0 - 900001
NaN == 0 - 900002
NoImage == "<undefined>"

IsNum(v) == v # Undef /\ v # NaN
Truthy(v) == IsNum(v) /\ v # 0
TruthyStr(s) == s # "" /\ s # NoImage

\* a || d
JOr(a, d) == IF Truthy(a) THEN a ELSE d
\* a - b, a + b
JSub(a, b) == IF IsNum(a) /\ IsNum(b) THEN a - b ELSE NaN
JAdd(a, b) == IF IsNum(a) /\ IsNum(b) THEN a + b ELSE NaN
\* Math.max(a, b), Math.min(a, b)
JMax(a, b) == IF IsNum(a) /\ IsNum(b) THEN (IF a >= b THEN a ELSE b) ELSE NaN
JMin(a, b) == IF IsNum(a) /\ IsNum(b) THEN (IF a <= b THEN a ELSE b) ELSE NaN
\* a > b, a < b (false when an operand is not a number)
JGt(a, b) == IsNum(a) /\ IsNum(b) /\ a > b
JLt(a, b) == IsNum(a) /\ IsNum(b) /\ a < b
\* a !== b
StrictNeq(a, b) == a = NaN \/ b = NaN \/ a # b

\* { ...obj, ...updates }
Merge(obj, updates) ==
  [f \in DOMAIN obj |-> IF f \in DOMAIN updates THEN updates[f] ELSE obj[f]]

(***************************************************************************)
(* Bounds of the model and the inputs the operations draw from.            *)
(***************************************************************************)
MaxOps == 3
MaxMoves == 2

CanvasWidths == {100, 400, 800}
CanvasHeights == {300, 600}
ImageUrls == {"bg.png"}
DownPoint == [x |-> 100, y |-> 100]
MovePoints == {[x |-> 150, y |-> 130], [x |-> 0 - 700, y |-> 0 - 500]}
RenderedRects == {[width |-> 120, height |-> 30]}
NoRect == [width |-> 0, height |-> 0]

ElementHandles ==
  {"top-left", "top-right", "bottom-left", "bottom-right", "top", "bottom", "left", "right"}
BackgroundHandles == {"nw", "n", "ne", "e", "se", "s", "sw", "w"}

\* resizeHandle.includes(part)
Includes(handle, part) ==
  CASE part = "right" -> handle \in {"right", "top-right", "bottom-right"}
    [] part = "left" -> handle \in {"left", "top-left", "bottom-left"}
    [] part = "top" -> handle \in {"top", "top-left", "top-right"}
    [] part = "bottom" -> handle \in {"bottom", "bottom-left", "bottom-right"}

(***************************************************************************)
(* Data model.                                                             *)
(***************************************************************************)
ConfigFields ==
  {"width", "height", "backgroundImage", "backgroundImageX", "backgroundImageY",
   "backgroundImageWidth", "backgroundImageHeight", "backgroundImageObjectFit"}

\* A Partial<CanvasConfig> read as a CanvasConfig: its missing fields are undefined.
AsConfig(partial) ==
  [f \in ConfigFields |->
     IF f \in DOMAIN partial THEN partial[f]
     ELSE IF f \in {"backgroundImage", "backgroundImageObjectFit"} THEN NoImage ELSE Undef]

DefaultConfig == AsConfig([width |-> 800, height |-> 600, backgroundImage |-> ""])

VarName(kind, n, copies) == [kind |-> kind, n |-> n, copies |-> copies]

TextData(w, h) == [type |-> "text", width |-> w, height |-> h]
ImageData(w, h) == [type |-> "image", width |-> w, height |-> h]

\* The templates the storage service holds.
Templates ==
  { [id |-> "t1", name |-> "banner",
     config |-> AsConfig([width |-> 800, height |-> 600, backgroundImage |-> "bg.png",
                          backgroundImageX |-> 100, backgroundImageY |-> 50,
                          backgroundImageWidth |-> 600, backgroundImageHeight |-> 400,
                          backgroundImageObjectFit |-> "contain"]),
     elements |-> << [id |-> 101, x |-> 700, y |-> 100, variableName |-> VarName("image", 1, 0),
                      data |-> ImageData(100, 100)],
                     [id |-> 102, x |-> 20, y |-> 20, variableName |-> VarName("text", 2, 0),
                      data |-> TextData(Undef, Undef)] >>],
    [id |-> "t2", name |-> "wide",
     config |-> DefaultConfig,
     elements |-> << [id |-> 103, x |-> 100, y |-> 540, variableName |-> VarName("text", 1, 0),
                      data |-> TextData(500, 50)] >>] }

VARIABLES
  currentView,          \* 'dashboard' | 'editor'
  canvasConfig,         \* CanvasConfig
  elements,             \* CanvasElement[]
  selectedElement,      \* <<>> (null) or <<element>>
  isBackgroundSelected,
  currentTemplateId,    \* "" (null) or a template id
  currentTemplateName,
  elementState,         \* the mounted DraggableElement components, by element id
  backgroundState,      \* the BackgroundImage component
  nextId,               \* the ids addElement / duplicateElement have generated
  downAt,               \* per mounted element: pointer, box and canvas at its last pointer-down
  committed,            \* what the handlers of the last pointer-move passed to onUpdate
  lastOp,               \* the operation that led to this state
  nOps,                 \* the operations taken, pointer moves apart
  nMoves,               \* the pointer moves taken
  urlParams,            \* the substitutions parsed from the page's query string
  output,               \* what the renderers have returned so far, oldest first
  exportJob,            \* the export in progress: loads awaited, what is drawn, what was downloaded
  history,              \* the session history of the page: the query of each entry, and the current one
  dialog,               \* the modal in front (its component state), or NoDialog
  requests,             \* the requests sent to apiService, oldest first, with their outcome
  lists,                \* the templates and categories the dashboard and the load modal show
  server                \* the templates and categories the storage service holds

vars ==
  <<currentView, canvasConfig, elements, selectedElement, isBackgroundSelected,
    currentTemplateId, currentTemplateName, elementState, backgroundState, nextId,
    downAt, committed, lastOp, nOps, nMoves, urlParams, output, exportJob, history, dialog,
    requests, lists, server>>

\* What the editor's operations never write
renderVars == <<urlParams, output, exportJob>>
serviceVars == <<dialog, requests, lists, server>>

\* A query string is the sequence of its key=value pairs; the page is first opened
\* without one.
NoQuery == <<>>
NoHistory == [entries |-> <<NoQuery>>, at |-> 1]

\* No export has been asked for
NoExport ==
  [started |-> FALSE, pending |-> {}, drawn |-> {}, downloaded |-> <<>>, failed |-> FALSE]

\* window.location.search
Search(h) == h.entries[h.at]

\* URLSearchParams.set(key, value): the first pair named key takes the value and the
\* others named key go; a pair is appended when there is none
SearchParamsSet(query, key, value) ==
  LET Named(i) == query[i][1] = key
      firstAt == IF \E i \in DOMAIN query : Named(i)
                 THEN CHOOSE i \in DOMAIN query : Named(i) /\ \A j \in 1..(i - 1) : ~Named(j)
                 ELSE 0
      Kept(i) == i = firstAt \/ ~Named(i)
      RECURSIVE From(_)
      From(i) == IF i > Len(query) THEN <<>>
                 ELSE IF ~Kept(i) THEN From(i + 1)
                 ELSE <<IF i = firstAt THEN <<key, value>> ELSE query[i]>> \o From(i + 1)
  IN IF firstAt = 0 THEN Append(query, <<key, value>>) ELSE From(1)

\* window.history.pushState({}, '', url): the entries after the current one go, the
\* new one becomes the current one; no popstate event is fired
pushState(h, query) ==
  [entries |-> Append(SubSeq(h.entries, 1, h.at), query), at |-> h.at + 1]

\* {}: the substitutions of a page opened without a query string
NoParams == [name \in {} |-> ""]

\* The five fields of the schedule form
ScheduleFields == {"groupId", "month", "day", "hour", "minute"}
NoSchedule == [f \in ScheduleFields |-> ""]

\* No modal is shown
NoDialog ==
  [kind |-> "none", instance |-> 0, open |-> FALSE, name |-> <<>>, form |-> {},
   fields |-> NoSchedule, error |-> "", isLoading |-> FALSE, deletingId |-> ""]

\* Nothing listed
NoLists == [templates |-> {}, categories |-> {}, error |-> "", modalTemplates |-> {},
            modalError |-> ""]

IdleElement ==
  [isDragging |-> FALSE, isResizing |-> FALSE,
   dragStart |-> [x |-> 0, y |-> 0],
   resizeStart |-> [x |-> 0, y |-> 0, width |-> 0, height |-> 0],
   resizeHandle |-> ""]

IdleBackground ==
  [isDragging |-> FALSE, isResizing |-> FALSE,
   dragStart |-> [x |-> 0, y |-> 0, elementX |-> 0, elementY |-> 0],
   resizeStart |-> [x |-> 0, y |-> 0, width |-> 0, height |-> 0, elementX |-> 0, elementY |-> 0],
   resizeHandle |-> ""]

\* History kept for the properties: where the pointer, the box and the canvas were at
\* the last pointer-down of each kind on a target ...
Down(e, x, y, width, height, config) ==
  [px |-> e.x, py |-> e.y, x |-> x, y |-> y, width |-> width, height |-> height,
   cw |-> config.width, ch |-> config.height, set |-> TRUE]
NoDown == [px |-> 0, py |-> 0, x |-> 0, y |-> 0, width |-> 0, height |-> 0, cw |-> 0, ch |-> 0,
           set |-> FALSE]
NoDowns == [drag |-> NoDown, resize |-> NoDown]
\* ... and what the handlers of the last pointer-move passed to onUpdate (el, bg), the
\* boxes that leaves the elements with, and the state the handlers ran on.
NoCommit ==
  [el |-> <<>>, box |-> <<>>, dragging |-> {}, bg |-> <<>>, bgDragging |-> FALSE,
   config |-> DefaultConfig, e |-> [x |-> 0, y |-> 0], rect |-> NoRect]

\* The box an element's fields describe
Box(element) ==
  [x |-> element.x, y |-> element.y, width |-> element.data.width,
   height |-> element.data.height]

Ids(els) == {els[i].id : i \in DOMAIN els}

\* The DraggableElement components after a render of element list els: a component
\* is kept (with its state) while its key stays in the list, and mounted idle otherwise.
Mounted(els, state, idle) ==
  [id \in Ids(els) |-> IF id \in DOMAIN state THEN state[id] ELSE idle]

\* CanvasEditor renders BackgroundImage only for a truthy config.backgroundImage.
BackgroundMounted(cfg) == TruthyStr(cfg.backgroundImage)

Op(name, id, p) == [op |-> name, id |-> id]
NoPoint == [x |-> 0, y |-> 0]

Init ==
  /\ currentView = "dashboard"
  /\ canvasConfig = DefaultConfig
  /\ elements = <<>>
  /\ selectedElement = <<>>
  /\ isBackgroundSelected = FALSE
  /\ currentTemplateId = ""
  /\ currentTemplateName = ""
  /\ elementState = <<>>
  /\ backgroundState = IdleBackground
  /\ nextId = 0
  /\ downAt = [el |-> <<>>, bg |-> NoDowns]
  /\ committed = NoCommit
  /\ lastOp = Op("init", 0, NoPoint)
  /\ nOps = 0
  /\ nMoves = 0
  /\ urlParams = NoParams
  /\ history = NoHistory
  /\ output = <<>>
  /\ exportJob = NoExport
  /\ dialog = NoDialog
  /\ requests = <<>>
  /\ lists = NoLists
  /\ server = NoLists


(***************************************************************************)
(* Editor shell (App.tsx).                                                 *)
(***************************************************************************)
\* constrainElement with maxX and maxY computed without Math.max(0, ...)
constrainElementNoFloor(newCanvasConfig, element) ==
  LET elementWidth == JOr(element.data.width, 100)
      elementHeight == JOr(element.data.height, 50)
      constrainedX == JMin(JMax(0, element.x), JSub(newCanvasConfig.width, elementWidth))
      constrainedY == JMin(JMax(0, element.y), JSub(newCanvasConfig.height, elementHeight))
  IN [element EXCEPT !.x = constrainedX, !.y = constrainedY]

\* One element of constrainElementsToCanvas' map.
constrainElement(newCanvasConfig, element) ==
  LET elementWidth == JOr(element.data.width, 100)
      elementHeight == JOr(element.data.height, 50)
      maxX == JMax(0, JSub(newCanvasConfig.width, elementWidth))
      maxY == JMax(0, JSub(newCanvasConfig.height, elementHeight))
      constrainedX == JMin(JMax(0, element.x), maxX)
      constrainedY == JMin(JMax(0, element.y), maxY)
  IN IF StrictNeq(constrainedX, element.x) \/ StrictNeq(constrainedY, element.y)
     THEN [element EXCEPT !.x = constrainedX, !.y = constrainedY]
     ELSE element

constrainElementsToCanvas(newCanvasConfig, currentElements) ==
  [i \in 1..Len(currentElements) |-> constrainElement(newCanvasConfig, currentElements[i])]

\* elements.find(el => el.id === id), as <<>> or <<el>>
Find(els, id) ==
  LET Hit(e) == e.id = id
      hits == SelectSeq(els, Hit)
  IN IF hits = <<>> THEN <<>> ELSE <<hits[1]>>

\* handleCanvasConfigChange without the call of constrainElementsToCanvas
handleCanvasConfigChangeUnconstrained(newConfig, cfg, els, sel) ==
  [setsElements |-> FALSE, elements |-> els, setsSelected |-> FALSE,
   selectedElement |-> sel, canvasConfig |-> newConfig]

\* handleCanvasConfigChange(newConfig) run with the state (cfg, els, sel) its closure
\* holds: the values it sets, and whether it sets the element list at all.
handleCanvasConfigChange(newConfig, cfg, els, sel) ==
  LET sizeChanged ==
        StrictNeq(newConfig.width, cfg.width) \/ StrictNeq(newConfig.height, cfg.height)
      constrainedElements == constrainElementsToCanvas(newConfig, els)
      constrainedSelected == IF sel = <<>> THEN <<>> ELSE Find(constrainedElements, sel[1].id)
      setsSelected ==
        /\ sizeChanged
        /\ sel # <<>>
        /\ constrainedSelected # <<>>
        /\ \/ StrictNeq(constrainedSelected[1].x, sel[1].x)
           \/ StrictNeq(constrainedSelected[1].y, sel[1].y)
  IN [setsElements |-> sizeChanged,
      elements |-> IF sizeChanged THEN constrainedElements ELSE els,
      setsSelected |-> setsSelected,
      selectedElement |-> IF setsSelected THEN constrainedSelected ELSE sel,
      canvasConfig |-> newConfig]

\* What a render leaves of the gesture components.
Render(elState, bgState, downs) ==
  /\ elementState' = Mounted(elements', elState, IdleElement)
  /\ downAt' = [el |-> Mounted(elements', downs.el, NoDowns), bg |-> downs.bg]
  /\ backgroundState' = IF BackgroundMounted(canvasConfig') THEN bgState ELSE IdleBackground

Count(op) ==
  /\ nOps < MaxOps
  /\ nOps' = nOps + 1
  /\ nMoves' = nMoves
  /\ lastOp' = op
  /\ committed' = NoCommit
  /\ UNCHANGED renderVars
  /\ UNCHANGED serviceVars

\* An operation that leaves the page's URL alone
Tick(op) == Count(op) /\ UNCHANGED history

InEditor == currentView = "editor"

\* Only the dashboard offers it (onCreateNew).
createNewTemplate ==
  /\ currentView = "dashboard"
  /\ Tick(Op("createNewTemplate", 0, NoPoint))
  /\ canvasConfig' = AsConfig([width |-> 800, height |-> 600, backgroundImage |-> ""])
  /\ elements' = <<>>
  /\ selectedElement' = <<>>
  /\ currentTemplateId' = ""
  /\ currentTemplateName' = ""
  /\ currentView' = "editor"
  /\ UNCHANGED <<isBackgroundSelected, nextId>>
  /\ Render(elementState, backgroundState, downAt)

loadTemplateAppending(t) ==
  /\ Count(Op("loadTemplate", 0, NoPoint))
  /\ history' = IF t.id # ""
                THEN pushState(history, SearchParamsSet(Search(history), "template", t.id))
                ELSE history
  /\ canvasConfig' = t.config
  /\ elements' = elements \o t.elements
  /\ selectedElement' = <<>>
  /\ currentTemplateId' = t.id
  /\ currentTemplateName' = t.name
  /\ currentView' = "editor"
  /\ UNCHANGED <<isBackgroundSelected, nextId>>
  /\ Render(elementState, backgroundState, downAt)

loadTemplate(t) ==
  /\ Count(Op("loadTemplate", 0, NoPoint))
  /\ history' = IF t.id # ""
                THEN pushState(history, SearchParamsSet(Search(history), "template", t.id))
                ELSE history
  /\ canvasConfig' = t.config
  /\ elements' = t.elements
  /\ selectedElement' = <<>>
  /\ currentTemplateId' = t.id
  /\ currentTemplateName' = t.name
  /\ currentView' = "editor"
  /\ UNCHANGED <<isBackgroundSelected, nextId>>
  /\ Render(elementState, backgroundState, downAt)

goToDashboard ==
  /\ InEditor
  /\ Tick(Op("goToDashboard", 0, NoPoint))
  /\ currentView' = "dashboard"
  /\ elementState' = <<>>
  /\ downAt' = [el |-> <<>>, bg |-> NoDowns]
  /\ backgroundState' = IdleBackground
  /\ UNCHANGED <<canvasConfig, elements, selectedElement, isBackgroundSelected,
                 currentTemplateId, currentTemplateName, nextId>>

\* addElement(element) with the id it generates
addElement(element) ==
  LET newElement == [id |-> nextId + 1, x |-> element.x, y |-> element.y,
                     variableName |-> element.variableName, data |-> element.data]
  IN /\ elements' = Append(elements, newElement)
     /\ selectedElement' = <<newElement>>
     /\ nextId' = nextId + 1
     /\ UNCHANGED <<currentView, canvasConfig, isBackgroundSelected,
                    currentTemplateId, currentTemplateName>>
     /\ Render(elementState, backgroundState, downAt)

addTextElement ==
  /\ InEditor
  /\ Tick(Op("addTextElement", nextId + 1, NoPoint))
  /\ addElement([x |-> 50, y |-> 50, variableName |-> VarName("text", Len(elements) + 1, 0),
                 data |-> TextData(200, 50)])

addImageElement ==
  /\ InEditor
  /\ Tick(Op("addImageElement", nextId + 1, NoPoint))
  /\ addElement([x |-> 50, y |-> 50, variableName |-> VarName("image", Len(elements) + 1, 0),
                 data |-> ImageData(150, 100)])

\* The elements the panel offers to duplicate or delete: every row of the list tab,
\* and the selected element when the elements tab shows it.
PanelElements ==
  {elements[i] : i \in DOMAIN elements}
    \cup (IF ~isBackgroundSelected /\ selectedElement # <<>> THEN {selectedElement[1]} ELSE {})

duplicateElement(element) ==
  LET newElement == [element EXCEPT !.id = nextId + 1,
                                    !.x = JAdd(element.x, 20),
                                    !.y = JAdd(element.y, 20),
                                    !.variableName.copies = @ + 1]
  IN /\ InEditor
     /\ Tick(Op("duplicateElement", nextId + 1, NoPoint))
     /\ elements' = Append(elements, newElement)
     /\ selectedElement' = <<newElement>>
     /\ nextId' = nextId + 1
     /\ UNCHANGED <<currentView, canvasConfig, isBackgroundSelected,
                    currentTemplateId, currentTemplateName>>
     /\ Render(elementState, backgroundState, downAt)

deleteElement(id) ==
  LET Keep(e) == e.id # id
  IN /\ InEditor
     /\ Tick(Op("deleteElement", id, NoPoint))
     /\ elements' = SelectSeq(elements, Keep)
     /\ selectedElement' = IF selectedElement # <<>> /\ selectedElement[1].id = id
                           THEN <<>> ELSE selectedElement
     /\ UNCHANGED <<currentView, canvasConfig, isBackgroundSelected,
                    currentTemplateId, currentTemplateName, nextId>>
     /\ Render(elementState, backgroundState, downAt)

\* onElementSelect(element), from the list tab of the panel
selectFromList(i) ==
  /\ InEditor
  /\ Tick(Op("onElementSelect", elements[i].id, NoPoint))
  /\ selectedElement' = <<elements[i]>>
  /\ isBackgroundSelected' = FALSE
  /\ UNCHANGED <<currentView, canvasConfig, elements, currentTemplateId, currentTemplateName,
                 elementState, backgroundState, nextId, downAt>>

\* handleCanvasClick with a callback that clears the selected element only
clickEmptyCanvasKeepingBackground ==
  /\ InEditor
  /\ Tick(Op("handleCanvasClick", 0, NoPoint))
  /\ selectedElement' = <<>>
  /\ UNCHANGED <<currentView, canvasConfig, elements, currentTemplateId, currentTemplateName,
                 elementState, backgroundState, nextId, downAt, isBackgroundSelected>>

\* CanvasEditor.handleCanvasClick on the canvas itself: onElementSelect(null)
clickEmptyCanvas ==
  /\ InEditor
  /\ Tick(Op("handleCanvasClick", 0, NoPoint))
  /\ selectedElement' = <<>>
  /\ isBackgroundSelected' = FALSE
  /\ UNCHANGED <<currentView, canvasConfig, elements, currentTemplateId, currentTemplateName,
                 elementState, backgroundState, nextId, downAt>>

\* CanvasEditor.handleCanvasClick for a click that bubbles up from an element or from
\* the background: e.target is not the canvas and nothing is called
clickOnTarget ==
  /\ InEditor
  /\ elements # <<>> \/ BackgroundMounted(canvasConfig)
  /\ Tick(Op("clickOnTarget", 0, NoPoint))
  /\ UNCHANGED <<currentView, canvasConfig, elements, selectedElement, isBackgroundSelected,
                 currentTemplateId, currentTemplateName, elementState, backgroundState,
                 nextId, downAt>>

\* A panel input calling onCanvasConfigChange(newConfig) with a whole config.
panelConfigChange(name, newConfig) ==
  LET r == handleCanvasConfigChange(newConfig, canvasConfig, elements, selectedElement)
  IN /\ InEditor
     /\ Tick(Op(name, 0, NoPoint))
     /\ elements' = r.elements
     /\ selectedElement' = r.selectedElement
     /\ canvasConfig' = r.canvasConfig
     /\ UNCHANGED <<currentView, isBackgroundSelected, currentTemplateId,
                    currentTemplateName, nextId>>
     /\ Render(elementState, backgroundState, downAt)

setCanvasWidth(w) ==
  /\ w # canvasConfig.width
  /\ panelConfigChange("setCanvasWidth", [canvasConfig EXCEPT !.width = w])

setCanvasHeight(h) ==
  /\ h # canvasConfig.height
  /\ panelConfigChange("setCanvasHeight", [canvasConfig EXCEPT !.height = h])

setBackgroundImage(url) ==
  /\ url # canvasConfig.backgroundImage
  /\ panelConfigChange("setBackgroundImage", [canvasConfig EXCEPT !.backgroundImage = url])

clearBackgroundImage ==
  /\ TruthyStr(canvasConfig.backgroundImage)
  /\ panelConfigChange("clearBackgroundImage", [canvasConfig EXCEPT !.backgroundImage = ""])


(***************************************************************************)
(* Gesture controllers: DraggableElement.tsx and BackgroundImage.          *)
(***************************************************************************)
IsSelected(element) == selectedElement # <<>> /\ selectedElement[1].id = element.id

\* handleMouseDown without its call of onSelect
elementMouseDownUnselecting(i, e) ==
  LET element == elements[i]
  IN /\ InEditor
     /\ Tick(Op("elementMouseDown", element.id, e))
     /\ elementState' =
          [elementState EXCEPT ![element.id].isDragging = TRUE,
                               ![element.id].dragStart =
                                  [x |-> JSub(e.x, element.x), y |-> JSub(e.y, element.y)]]
     /\ downAt' = [downAt EXCEPT !.el[element.id].drag =
                     Down(e, element.x, element.y, element.data.width, element.data.height,
                          canvasConfig)]
     /\ UNCHANGED <<currentView, canvasConfig, elements, currentTemplateId,
                    currentTemplateName, backgroundState, nextId, selectedElement,
                    isBackgroundSelected>>

\* DraggableElement.handleMouseDown on the element body
elementMouseDown(i, e) ==
  LET element == elements[i]
  IN /\ InEditor
     /\ Tick(Op("elementMouseDown", element.id, e))
     /\ selectedElement' = <<element>>
     /\ isBackgroundSelected' = FALSE
     /\ elementState' =
          [elementState EXCEPT ![element.id].isDragging = TRUE,
                               ![element.id].dragStart =
                                  [x |-> JSub(e.x, element.x), y |-> JSub(e.y, element.y)]]
     /\ downAt' = [downAt EXCEPT !.el[element.id].drag =
                     Down(e, element.x, element.y, element.data.width, element.data.height,
                          canvasConfig)]
     /\ UNCHANGED <<currentView, canvasConfig, elements, currentTemplateId,
                    currentTemplateName, backgroundState, nextId>>

\* resizeStart as handleResizeMouseDown captures it
elementResizeStart(element, e) ==
  IF element.data.type = "image"
  THEN [x |-> e.x, y |-> e.y, width |-> element.data.width, height |-> element.data.height]
  ELSE [x |-> e.x, y |-> e.y, width |-> JOr(element.data.width, 200),
        height |-> JOr(element.data.height, 50)]

\* DraggableElement.handleResizeMouseDown on one of the handles a selected element shows
elementResizeMouseDown(i, handle, e) ==
  LET element == elements[i]
  IN /\ InEditor
     /\ IsSelected(element)
     /\ element.data.type \in {"image", "text"}
     /\ Tick(Op("elementResizeMouseDown", element.id, e))
     /\ elementState' =
          [elementState EXCEPT ![element.id].isResizing = TRUE,
                               ![element.id].resizeHandle = handle,
                               ![element.id].resizeStart = elementResizeStart(element, e)]
     /\ downAt' = [downAt EXCEPT !.el[element.id].resize =
                     Down(e, element.x, element.y, element.data.width, element.data.height,
                          canvasConfig)]
     /\ UNCHANGED <<currentView, canvasConfig, elements, selectedElement, isBackgroundSelected,
                    currentTemplateId, currentTemplateName, backgroundState, nextId>>

\* BackgroundImage's defaults for the background geometry
bgX(config) == JOr(config.backgroundImageX, 0)
bgY(config) == JOr(config.backgroundImageY, 0)
\* bgWidth with the width of the default canvas for the canvas width
bgWidthOfDefaultCanvas(config) == JOr(config.backgroundImageWidth, 800)
bgWidth(config) == JOr(config.backgroundImageWidth, config.width)
bgHeight(config) == JOr(config.backgroundImageHeight, config.height)
bgObjectFit(config) ==
  IF TruthyStr(config.backgroundImageObjectFit) THEN config.backgroundImageObjectFit
  ELSE "cover"

\* The style of the background's div
backgroundStyle(config) ==
  [left |-> bgX(config), top |-> bgY(config), width |-> bgWidth(config),
   height |-> bgHeight(config), backgroundSize |-> bgObjectFit(config)]

\* BackgroundImage.handleMouseDown
backgroundMouseDown(e) ==
  /\ InEditor
  /\ BackgroundMounted(canvasConfig)
  /\ Tick(Op("backgroundMouseDown", 0, e))
  /\ selectedElement' = <<>>
  /\ isBackgroundSelected' = TRUE
  /\ backgroundState' =
       [backgroundState EXCEPT !.isDragging = TRUE,
                               !.dragStart = [x |-> e.x, y |-> e.y,
                                              elementX |-> bgX(canvasConfig),
                                              elementY |-> bgY(canvasConfig)]]
  /\ downAt' = [downAt EXCEPT !.bg.drag =
                  Down(e, bgX(canvasConfig), bgY(canvasConfig), bgWidth(canvasConfig),
                       bgHeight(canvasConfig), canvasConfig)]
  /\ UNCHANGED <<currentView, canvasConfig, elements, currentTemplateId, currentTemplateName,
                 elementState, nextId>>

\* BackgroundImage.handleResizeMouseDown on one of the handles a selected background shows
backgroundResizeMouseDown(handle, e) ==
  /\ InEditor
  /\ BackgroundMounted(canvasConfig)
  /\ isBackgroundSelected
  /\ Tick(Op("backgroundResizeMouseDown", 0, e))
  /\ backgroundState' =
       [backgroundState EXCEPT !.isResizing = TRUE,
                               !.resizeHandle = handle,
                               !.resizeStart = [x |-> e.x, y |-> e.y,
                                                width |-> bgWidth(canvasConfig),
                                                height |-> bgHeight(canvasConfig),
                                                elementX |-> bgX(canvasConfig),
                                                elementY |-> bgY(canvasConfig)]]
  /\ downAt' = [downAt EXCEPT !.bg.resize =
                  Down(e, bgX(canvasConfig), bgY(canvasConfig), bgWidth(canvasConfig),
                       bgHeight(canvasConfig), canvasConfig)]
  /\ UNCHANGED <<currentView, canvasConfig, elements, selectedElement, isBackgroundSelected,
                 currentTemplateId, currentTemplateName, elementState, nextId>>

\* The box size the drag branch clamps with; rect is getBoundingClientRect().
dragSize(element, rect) ==
  [width |-> IF ~Truthy(element.data.width) THEN rect.width
             ELSE JOr(element.data.width, IF element.data.type = "text" THEN 200 ELSE 150),
   height |-> IF ~Truthy(element.data.height) THEN rect.height
              ELSE JOr(element.data.height, IF element.data.type = "text" THEN 50 ELSE 100)]

\* The drag branch without its Math.max(0, ...)
elementDragUpdateNoFloor(element, st, canvasWidth, canvasHeight, e, rect) ==
  LET size == dragSize(element, rect)
  IN [x |-> JMin(JSub(canvasWidth, size.width), JSub(e.x, st.dragStart.x)),
      y |-> JMin(JSub(canvasHeight, size.height), JSub(e.y, st.dragStart.y))]

\* DraggableElement.handleMouseMove, drag branch: the updates passed to onUpdate
elementDragUpdate(element, st, canvasWidth, canvasHeight, e, rect) ==
  LET size == dragSize(element, rect)
      newX == JMax(0, JMin(JSub(canvasWidth, size.width), JSub(e.x, st.dragStart.x)))
      newY == JMax(0, JMin(JSub(canvasHeight, size.height), JSub(e.y, st.dragStart.y)))
  IN [x |-> newX, y |-> newY]

\* The resize branch without the canvas edge: the size follows the pointer
elementResizeUpdateUnbounded(element, st, canvasWidth, canvasHeight, e) ==
  [data |-> [element.data EXCEPT
               !.width = JMax(20, JAdd(st.resizeStart.width, JSub(e.x, st.resizeStart.x))),
               !.height = JMax(20, JAdd(st.resizeStart.height, JSub(e.y, st.resizeStart.y)))]]

\* DraggableElement.handleMouseMove, resize branch: the updates passed to onUpdate
elementResizeUpdate(element, st, canvasWidth, canvasHeight, e) ==
  LET rs == st.resizeStart
      h == st.resizeHandle
      deltaX == JSub(e.x, rs.x)
      deltaY == JSub(e.y, rs.y)
      \* width
      wRight == IF Includes(h, "right")
                THEN JMax(20, JMin(JSub(canvasWidth, element.x), JAdd(rs.width, deltaX)))
                ELSE rs.width
      constrainedWidthIncrease ==
        JMin(JSub(JMax(20, JSub(rs.width, deltaX)), rs.width), element.x)
      w1 == IF Includes(h, "left") THEN JAdd(rs.width, constrainedWidthIncrease) ELSE wRight
      x1 == IF Includes(h, "left") THEN JSub(element.x, constrainedWidthIncrease) ELSE element.x
      \* height
      hBottom == IF Includes(h, "bottom")
                 THEN JMax(20, JMin(JSub(canvasHeight, element.y), JAdd(rs.height, deltaY)))
                 ELSE rs.height
      constrainedHeightIncrease ==
        JMin(JSub(JMax(20, JSub(rs.height, deltaY)), rs.height), element.y)
      h1 == IF Includes(h, "top") THEN JAdd(rs.height, constrainedHeightIncrease) ELSE hBottom
      y1 == IF Includes(h, "top") THEN JSub(element.y, constrainedHeightIncrease) ELSE element.y
      \* additional boundary check
      w2 == IF JGt(JAdd(x1, w1), canvasWidth) THEN JSub(canvasWidth, x1) ELSE w1
      h2 == IF JGt(JAdd(y1, h1), canvasHeight) THEN JSub(canvasHeight, y1) ELSE h1
      w3 == IF JLt(x1, 0) THEN JAdd(w2, x1) ELSE w2
      x3 == IF JLt(x1, 0) THEN 0 ELSE x1
      h3 == IF JLt(y1, 0) THEN JAdd(h2, y1) ELSE h2
      y3 == IF JLt(y1, 0) THEN 0 ELSE y1
      \* minimum dimensions
      newWidth == JMax(20, w3)
      newHeight == JMax(20, h3)
      data == [element.data EXCEPT !.width = newWidth, !.height = newHeight]
  IN IF StrictNeq(x3, element.x) \/ StrictNeq(y3, element.y)
     THEN [data |-> data, x |-> x3, y |-> y3]
     ELSE [data |-> data]

\* DraggableElement.handleMouseMove as the document listener of an active element
elementMouseMove(element, st, canvasWidth, canvasHeight, e, rect) ==
  IF st.isDragging
  THEN elementDragUpdate(element, st, canvasWidth, canvasHeight, e, rect)
  ELSE elementResizeUpdate(element, st, canvasWidth, canvasHeight, e)

\* BackgroundImage.handleMouseMove, drag branch
backgroundDragUpdate(config, st, e) ==
  LET deltaX == JSub(e.x, st.dragStart.x)
      deltaY == JSub(e.y, st.dragStart.y)
      newX == JMax(0, JMin(JSub(config.width, bgWidth(config)),
                           JAdd(st.dragStart.elementX, deltaX)))
      newY == JMax(0, JMin(JSub(config.height, bgHeight(config)),
                           JAdd(st.dragStart.elementY, deltaY)))
  IN [backgroundImageX |-> newX, backgroundImageY |-> newY]

\* The resize branch without the lines that keep the image within the canvas
backgroundResizeUpdateUnclamped(config, st, e) ==
  LET rs == st.resizeStart
      h == st.resizeHandle
      deltaX == JSub(e.x, rs.x)
      deltaY == JSub(e.y, rs.y)
      w1 == IF h \in {"nw", "sw", "w"} THEN JMax(20, JSub(rs.width, deltaX))
            ELSE IF h \in {"ne", "e", "se"} THEN JMax(20, JAdd(rs.width, deltaX))
            ELSE rs.width
      h1 == IF h \in {"nw", "n", "ne"} THEN JMax(20, JSub(rs.height, deltaY))
            ELSE IF h \in {"se", "s", "sw"} THEN JMax(20, JAdd(rs.height, deltaY))
            ELSE rs.height
      x1 == IF h \in {"nw", "sw", "w"} THEN JAdd(rs.elementX, JSub(rs.width, w1))
            ELSE rs.elementX
      y1 == IF h \in {"nw", "n", "ne"} THEN JAdd(rs.elementY, JSub(rs.height, h1))
            ELSE rs.elementY
  IN [backgroundImageWidth |-> w1, backgroundImageHeight |-> h1,
      backgroundImageX |-> x1, backgroundImageY |-> y1]

\* BackgroundImage.handleMouseMove, resize branch
backgroundResizeUpdate(config, st, e) ==
  LET rs == st.resizeStart
      h == st.resizeHandle
      deltaX == JSub(e.x, rs.x)
      deltaY == JSub(e.y, rs.y)
      w1 == IF h \in {"nw", "sw", "w"} THEN JMax(20, JSub(rs.width, deltaX))
            ELSE IF h \in {"ne", "e", "se"} THEN JMax(20, JAdd(rs.width, deltaX))
            ELSE rs.width
      h1 == IF h \in {"nw", "n", "ne"} THEN JMax(20, JSub(rs.height, deltaY))
            ELSE IF h \in {"se", "s", "sw"} THEN JMax(20, JAdd(rs.height, deltaY))
            ELSE rs.height
      x1 == IF h \in {"nw", "sw", "w"} THEN JAdd(rs.elementX, JSub(rs.width, w1))
            ELSE rs.elementX
      y1 == IF h \in {"nw", "n", "ne"} THEN JAdd(rs.elementY, JSub(rs.height, h1))
            ELSE rs.elementY
      \* keep the image within the canvas
      newX == JMax(0, JMin(JSub(config.width, w1), x1))
      newY == JMax(0, JMin(JSub(config.height, h1), y1))
      newWidth == JMin(w1, JSub(config.width, newX))
      newHeight == JMin(h1, JSub(config.height, newY))
  IN [f \in {"backgroundImageWidth", "backgroundImageHeight"}
            \cup (IF StrictNeq(newX, rs.elementX) THEN {"backgroundImageX"} ELSE {})
            \cup (IF StrictNeq(newY, rs.elementY) THEN {"backgroundImageY"} ELSE {}) |->
        CASE f = "backgroundImageWidth" -> newWidth
          [] f = "backgroundImageHeight" -> newHeight
          [] f = "backgroundImageX" -> newX
          [] f = "backgroundImageY" -> newY]

backgroundMouseMove(config, st, e) ==
  IF st.isDragging THEN backgroundDragUpdate(config, st, e)
  ELSE backgroundResizeUpdate(config, st, e)

ElementActive(st) == st.isDragging \/ st.isResizing
ActiveElementsAt(state) == {id \in DOMAIN state : ElementActive(state[id])}
ActiveElements == {id \in DOMAIN elementState : ElementActive(elementState[id])}
BackgroundActive ==
  /\ BackgroundMounted(canvasConfig)
  /\ \/ backgroundState.isDragging
     \/ backgroundState.isResizing /\ backgroundState.resizeHandle # ""

\* Whether some active element is measured through its rendered rectangle.
UsesRect ==
  \E i \in DOMAIN elements :
    /\ elements[i].id \in ActiveElements
    /\ elementState[elements[i].id].isDragging
    /\ ~Truthy(elements[i].data.width) \/ ~Truthy(elements[i].data.height)

\* A mousemove on the document: every target with a gesture in progress has its
\* handleMouseMove registered, and each runs on the state of the last render.  The
\* element updates go through updateElement's functional setters, the background's
\* through handleCanvasConfigChange, which sets the lists it computed; bgFirst is the
\* position of the background's listener among the registered ones.
mouseMove(e, rect, bgFirst) ==
  LET active == ActiveElements
      listening == active # {} \/ BackgroundActive
      upd == [id \in active |->
                elementMouseMove(Find(elements, id)[1], elementState[id],
                                 canvasConfig.width, canvasConfig.height, e, rect)]
      bgUpd == backgroundMouseMove(canvasConfig, backgroundState, e)
      r == handleCanvasConfigChange(AsConfig(bgUpd), canvasConfig, elements, selectedElement)
      applyEls(els) ==
        [i \in 1..Len(els) |->
           IF els[i].id \in active THEN Merge(els[i], upd[els[i].id]) ELSE els[i]]
      applySel(sel) ==
        IF selectedElement # <<>> /\ selectedElement[1].id \in active
        THEN (IF sel # <<>> THEN <<Merge(sel[1], upd[selectedElement[1].id])>> ELSE <<>>)
        ELSE sel
  IN /\ InEditor
     /\ UsesRect \/ rect = NoRect
     /\ bgFirst \/ (BackgroundActive /\ active # {})
     /\ listening => nMoves < MaxMoves
     /\ nMoves' = IF listening THEN nMoves + 1 ELSE nMoves
     /\ nOps' = nOps
     /\ lastOp' = Op("mousemove", 0, e)
     /\ committed' = IF ~listening THEN NoCommit
                      ELSE [el |-> upd,
                            box |-> [id \in active |->
                                       Box(Merge(Find(elements, id)[1], upd[id]))],
                            dragging |-> {id \in active : elementState[id].isDragging},
                            bg |-> IF BackgroundActive THEN <<bgUpd>> ELSE <<>>,
                            bgDragging |-> BackgroundActive /\ backgroundState.isDragging,
                            config |-> canvasConfig, e |-> e, rect |-> rect]
     /\ IF ~BackgroundActive
        THEN /\ elements' = applyEls(elements)
             /\ selectedElement' = applySel(selectedElement)
             /\ canvasConfig' = canvasConfig
        ELSE IF bgFirst
        THEN /\ elements' = applyEls(r.elements)
             /\ selectedElement' = applySel(r.selectedElement)
             /\ canvasConfig' = r.canvasConfig
        ELSE /\ elements' = IF r.setsElements THEN r.elements ELSE applyEls(elements)
             /\ selectedElement' = IF r.setsSelected THEN r.selectedElement
                                   ELSE applySel(selectedElement)
             /\ canvasConfig' = r.canvasConfig
     /\ UNCHANGED <<currentView, isBackgroundSelected, currentTemplateId,
                    currentTemplateName, nextId>>
     /\ UNCHANGED <<renderVars, history>>
     /\ UNCHANGED serviceVars
     /\ Render(elementState, backgroundState, downAt)

\* A mouseup whose handlers leave isDragging set
mouseUpKeepsDragging ==
  /\ InEditor
  /\ ActiveElements # {} \/ BackgroundActive
  /\ Tick(Op("mouseup", 0, NoPoint))
  /\ elementState' =
       [id \in DOMAIN elementState |->
          [elementState[id] EXCEPT !.isResizing = FALSE, !.resizeHandle = ""]]
  /\ backgroundState' = [backgroundState EXCEPT !.isResizing = FALSE, !.resizeHandle = ""]
  /\ UNCHANGED <<currentView, canvasConfig, elements, selectedElement, isBackgroundSelected,
                 currentTemplateId, currentTemplateName, nextId, downAt>>

\* A mouseup on the document: handleMouseUp of every target with a gesture in progress.
\* (The listeners exist only while some gesture is in progress.)
mouseUp ==
  /\ InEditor
  /\ ActiveElements # {} \/ BackgroundActive
  /\ Tick(Op("mouseup", 0, NoPoint))
  /\ elementState' =
       [id \in DOMAIN elementState |->
          IF ElementActive(elementState[id])
          THEN [elementState[id] EXCEPT !.isDragging = FALSE, !.isResizing = FALSE,
                                        !.resizeHandle = ""]
          ELSE elementState[id]]
  /\ backgroundState' =
       IF BackgroundMounted(canvasConfig)
          /\ (backgroundState.isDragging \/ backgroundState.isResizing)
       THEN [backgroundState EXCEPT !.isDragging = FALSE, !.isResizing = FALSE,
                                    !.resizeHandle = ""]
       ELSE backgroundState
  /\ UNCHANGED <<currentView, canvasConfig, elements, selectedElement, isBackgroundSelected,
                 currentTemplateId, currentTemplateName, nextId, downAt>>

\* The pointer leaves the window during a gesture and the button is released there:
\* no mouseup reaches the document, and the components listen for nothing else.
pointerLeavesWindow ==
  /\ InEditor
  /\ ActiveElements # {} \/ BackgroundActive
  /\ Tick(Op("pointerLeavesWindow", 0, NoPoint))
  /\ UNCHANGED <<currentView, canvasConfig, elements, selectedElement, isBackgroundSelected,
                 currentTemplateId, currentTemplateName, elementState, backgroundState,
                 nextId, downAt>>

\* The pointer positions a mousemove is observed at: those of a gesture while a
\* listener is attached, the resting position otherwise
PointerMoves == IF ActiveElements # {} \/ BackgroundActive THEN MovePoints ELSE {DownPoint}

Next ==
  \/ createNewTemplate
  \/ \E t \in Templates : loadTemplate(t)
  \/ goToDashboard
  \/ addTextElement
  \/ addImageElement
  \/ \E el \in PanelElements : duplicateElement(el)
  \/ \E el \in PanelElements : deleteElement(el.id)
  \/ \E i \in DOMAIN elements : selectFromList(i)
  \/ clickEmptyCanvas
  \/ \E w \in CanvasWidths : setCanvasWidth(w)
  \/ \E h \in CanvasHeights : setCanvasHeight(h)
  \/ \E url \in ImageUrls : setBackgroundImage(url)
  \/ clearBackgroundImage
  \/ \E i \in DOMAIN elements : elementMouseDown(i, DownPoint)
  \/ \E i \in DOMAIN elements, handle \in ElementHandles :
       elementResizeMouseDown(i, handle, DownPoint)
  \/ backgroundMouseDown(DownPoint)
  \/ \E handle \in BackgroundHandles : backgroundResizeMouseDown(handle, DownPoint)
  \/ \E e \in PointerMoves, rect \in RenderedRects \cup {NoRect}, bgFirst \in BOOLEAN :
       mouseMove(e, rect, bgFirst)
  \/ mouseUp
  \/ pointerLeavesWindow

Spec == Init /\ [][Next]_vars


(***************************************************************************)
(* constrainElementsToCanvas on its own: the element lists and canvases    *)
(* it is given, and its application to them.                               *)
(***************************************************************************)
MaxLen == 2
ClampXs == {0 - 50, 350, 900}
ClampYs == {0 - 20, 280}
ClampSizes ==
  {[width |-> Undef, height |-> Undef], [width |-> 0, height |-> 50],
   [width |-> 500, height |-> 50]}
ClampElements ==
  {[id |-> 0, x |-> x, y |-> y, variableName |-> VarName("text", 1, 0),
    data |-> TextData(size.width, size.height)] :
     x \in ClampXs, y \in ClampYs, size \in ClampSizes}
ElementLists ==
  UNION {{[i \in 1..n |-> [f[i] EXCEPT !.id = i]] : f \in [1..n -> ClampElements]} :
           n \in 0..MaxLen}

InitClamp ==
  /\ currentView = "editor"
  /\ canvasConfig \in {AsConfig([width |-> w, height |-> h, backgroundImage |-> ""]) :
                          w \in CanvasWidths, h \in CanvasHeights}
  /\ elements \in ElementLists
  /\ selectedElement = <<>>
  /\ isBackgroundSelected = FALSE
  /\ currentTemplateId = ""
  /\ currentTemplateName = ""
  /\ elementState = Mounted(elements, <<>>, IdleElement)
  /\ backgroundState = IdleBackground
  /\ nextId = 0
  /\ downAt = [el |-> Mounted(elements, <<>>, NoDowns), bg |-> NoDowns]
  /\ committed = NoCommit
  /\ lastOp = Op("init", 0, NoPoint)
  /\ nOps = 0
  /\ nMoves = 0
  /\ urlParams = NoParams
  /\ history = NoHistory
  /\ output = <<>>
  /\ exportJob = NoExport
  /\ dialog = NoDialog
  /\ requests = <<>>
  /\ lists = NoLists
  /\ server = NoLists

\* constrainElementsToCanvas(canvasConfig, elements), once and once again
applyConstrain ==
  /\ nOps < 2
  /\ nOps' = nOps + 1
  /\ lastOp' = Op("constrainElementsToCanvas", 0, NoPoint)
  /\ elements' = constrainElementsToCanvas(canvasConfig, elements)
  /\ UNCHANGED <<currentView, canvasConfig, selectedElement, isBackgroundSelected,
                 currentTemplateId, currentTemplateName, elementState, backgroundState,
                 nextId, downAt, committed, nMoves, renderVars, history,
                 serviceVars>>

NextClamp == applyConstrain

SpecClamp == InitClamp /\ [][NextClamp]_vars


(***************************************************************************)
(* The resize branch of handleMouseMove on its own: an element placed      *)
(* through the panel's position inputs, selected, one of its handles       *)
(* pressed, and the pointer moves that follow.                             *)
(***************************************************************************)
ResizeXs == {0 - 30, 100, 780}
ResizeYs == {0 - 30, 100, 580}
ResizeData == {ImageData(100, 50), TextData(Undef, Undef)}
ResizeElements ==
  {[id |-> 1, x |-> x, y |-> y, variableName |-> VarName(data.type, 1, 0), data |-> data] :
     x \in ResizeXs, y \in ResizeYs, data \in ResizeData}
ResizeMoves == {[x |-> 300, y |-> 300], [x |-> 50, y |-> 70]}

InitResize ==
  \E element \in ResizeElements, handle \in ElementHandles :
    /\ currentView = "editor"
    /\ canvasConfig \in {AsConfig([width |-> w, height |-> h, backgroundImage |-> ""]) :
                            w \in CanvasWidths, h \in CanvasHeights}
    /\ elements = <<element>>
    /\ selectedElement = <<element>>
    /\ isBackgroundSelected = FALSE
    /\ currentTemplateId = ""
    /\ currentTemplateName = ""
    /\ elementState =
         [id \in {element.id} |->
            [IdleElement EXCEPT !.isResizing = TRUE, !.resizeHandle = handle,
                                !.resizeStart = elementResizeStart(element, DownPoint)]]
    /\ backgroundState = IdleBackground
    /\ nextId = 1
    /\ downAt =
         [el |-> [id \in {element.id} |->
                    [NoDowns EXCEPT !.resize =
                       Down(DownPoint, element.x, element.y, element.data.width,
                            element.data.height, canvasConfig)]],
          bg |-> NoDowns]
    /\ committed = NoCommit
    /\ lastOp = Op("elementResizeMouseDown", element.id, DownPoint)
    /\ nOps = 0
    /\ nMoves = 0
    /\ urlParams = NoParams
    /\ history = NoHistory
    /\ output = <<>>
    /\ exportJob = NoExport
    /\ dialog = NoDialog
    /\ requests = <<>>
    /\ lists = NoLists
    /\ server = NoLists

NextResize == \E e \in ResizeMoves : mouseMove(e, NoRect, TRUE)

SpecResize == InitResize /\ [][NextResize]_vars


(***************************************************************************)
(* The renderers: the live canvas of the editor, the two renderCanvas      *)
(* functions and the raster export, applied to the same template.          *)
(***************************************************************************)
MaxRenders == 2

\* What reading an absent property gives, and what reading one that every object
\* literal inherits gives (a function, which is truthy)
NoValue == "<undefined>"
InheritedFunction == "<function>"
ObjectPrototypeNames == {"constructor", "toString", "valueOf", "hasOwnProperty"}

\* 'auto'
Auto == 0 - 900003
PlaceholderImage == "https://via.placeholder.com/150x100?text=Image"

\* params[name], params an object literal
Lookup(params, name) ==
  IF name \in DOMAIN params THEN params[name]
  ELSE IF name \in ObjectPrototypeNames THEN InheritedFunction ELSE NoValue

\* a || d on strings
StrOr(a, d) == IF TruthyStr(a) THEN a ELSE d

\* `{${variableName}}`
TextPlaceholder(name) == "{" \o name \o "}"

\* width ? `${width}px` : 'auto'
Px(v) == IF Truthy(v) THEN v ELSE Auto

\* The inner tree with the size given to the text box
renderContentSized(element, params, textWidth, textHeight) ==
  LET variableValue == Lookup(params, element.variableName)
  IN IF element.data.type = "text"
     THEN [tag |-> "div",
           value |-> StrOr(variableValue,
                           StrOr(element.data.content, TextPlaceholder(element.variableName))),
           width |-> textWidth, height |-> textHeight]
     ELSE [tag |-> "img",
           value |-> StrOr(variableValue, StrOr(element.data.src, PlaceholderImage)),
           width |-> element.data.width, height |-> element.data.height]

\* DraggableElement.renderContent
renderContent(element, params) ==
  renderContentSized(element, params, Px(element.data.width), Px(element.data.height))

\* The positioned node of one element
Positioned(element, content) ==
  [key |-> element.id, left |-> element.x, top |-> element.y, content |-> content]

\* scale, as the fraction <<numerator, denominator>>
Scale(config, maxWidth) ==
  LET longest == JMax(config.width, config.height)
  IN IF ~Truthy(maxWidth) THEN <<1, 1>>
     ELSE IF ~IsNum(longest) THEN <<NaN, 1>>
     ELSE IF longest > maxWidth THEN <<maxWidth, longest>> ELSE <<1, 1>>

\* The outer nodes: the scaled frame and the canvas with its background
Frame(config, scale, children) ==
  [failed |-> FALSE,
   width |-> <<config.width * scale[1], scale[2]>>,
   height |-> <<config.height * scale[1], scale[2]>>,
   scale |-> scale,
   backgroundImage |-> IF TruthyStr(config.backgroundImage) THEN config.backgroundImage
                       ELSE NoValue,
   children |-> children]

\* utils/canvasRenderer renderCanvas: text is laid out without a box
renderCanvas(config, els, params, maxWidth) ==
  Frame(config, Scale(config, maxWidth),
        [i \in DOMAIN els |->
           Positioned(els[i], renderContentSized(els[i], params, Auto, Auto))])

\* The renderCanvas that gives text its box
renderCanvasBoxed(config, els, params, maxWidth) ==
  Frame(config, Scale(config, maxWidth),
        [i \in DOMAIN els |->
           Positioned(els[i], renderContentSized(els[i], params, Px(els[i].data.width),
                                                 Px(els[i].data.height)))])

\* CanvasEditor: the canvas and one DraggableElement per element
CanvasEditor(config, els, params) ==
  Frame(config, Scale(config, 800),
        [i \in DOMAIN els |-> Positioned(els[i], renderContent(els[i], params))])

\* ExportModal.exportCanvas: what has been drawn when toDataURL is taken. Without a
\* background image drawElements is called before its declaration and the export
\* fails; with one, the text is drawn and the images are still loading.
exportCanvas(config, els) ==
  LET IsText(e) == e.data.type = "text"
      texts == SelectSeq(els, IsText)
      fillText(e) ==
        [key |-> e.id, left |-> e.x, top |-> e.y + e.data.fontSize,
         content |-> [tag |-> "fillText",
                      value |-> StrOr(e.data.content, TextPlaceholder(e.variableName)),
                      width |-> Auto, height |-> Auto]]
  IN [failed |-> ~TruthyStr(config.backgroundImage),
      width |-> <<config.width, 1>>,
      height |-> <<config.height, 1>>,
      scale |-> <<1, 1>>,
      backgroundImage |-> IF TruthyStr(config.backgroundImage) THEN config.backgroundImage
                          ELSE NoValue,
      children |-> IF TruthyStr(config.backgroundImage)
                   THEN [i \in DOMAIN texts |-> fillText(texts[i])]
                   ELSE <<>>]

RenderNames == {"v", "constructor"}
RenderDefaults == {"", "D"}
RenderText(content, w, h) ==
  [type |-> "text", content |-> content, fontSize |-> 24, width |-> w, height |-> h]
RenderImage(src, w, h) == [type |-> "image", src |-> src, width |-> w, height |-> h]
RenderData ==
  {RenderText(c, size.width, size.height) :
     c \in RenderDefaults, size \in {[width |-> Undef, height |-> Undef],
                                     [width |-> 200, height |-> 50]}}
    \cup {RenderImage(c, 100, 100) : c \in RenderDefaults}
RenderElements ==
  {[id |-> 0, x |-> 20, y |-> 40, variableName |-> name, data |-> data] :
     name \in RenderNames, data \in RenderData}
RenderLists ==
  {<<[e EXCEPT !.id = 1]>> : e \in RenderElements}
    \cup {<<[e EXCEPT !.id = 1], [f EXCEPT !.id = 2, !.y = 140]>> :
            e \in RenderElements, f \in {g \in RenderElements : g.variableName = "v"}}
RenderParams == UNION {[names -> {"", "X"}] : names \in SUBSET {"v"}}
\* A background the user has moved, resized and set to contain
PlacedBackground ==
  AsConfig([width |-> 800, height |-> 600, backgroundImage |-> "bg.png",
            backgroundImageX |-> 100, backgroundImageY |-> 50,
            backgroundImageWidth |-> 400, backgroundImageHeight |-> 300,
            backgroundImageObjectFit |-> "contain"])
RenderConfigs ==
  {AsConfig([width |-> 800, height |-> 600, backgroundImage |-> url]) :
     url \in {""} \cup ImageUrls} \cup {PlacedBackground}
MaxWidths == {Undef, 400}

InitRender ==
  /\ currentView = "editor"
  /\ canvasConfig \in RenderConfigs
  /\ elements \in RenderLists
  /\ selectedElement = <<>>
  /\ isBackgroundSelected = FALSE
  /\ currentTemplateId = ""
  /\ currentTemplateName = ""
  /\ elementState = Mounted(elements, <<>>, IdleElement)
  /\ backgroundState = IdleBackground
  /\ nextId = 2
  /\ downAt = [el |-> Mounted(elements, <<>>, NoDowns), bg |-> NoDowns]
  /\ committed = NoCommit
  /\ lastOp = Op("init", 0, NoPoint)
  /\ nOps = 0
  /\ nMoves = 0
  /\ urlParams \in RenderParams
  /\ history = NoHistory
  /\ output = <<>>
  /\ exportJob = NoExport
  /\ dialog = NoDialog
  /\ requests = <<>>
  /\ lists = NoLists
  /\ server = NoLists

\* renderCanvas's background: the div that fills the canvas, its image laid out cover
canvasBackground(config) ==
  [left |-> 0, top |-> 0, width |-> config.width, height |-> config.height,
   backgroundSize |-> "cover"]

\* exportCanvas's background: drawImage stretches the image over the whole canvas
drawnBackground(config) ==
  [left |-> 0, top |-> 0, width |-> config.width, height |-> config.height,
   backgroundSize |-> "fill"]

\* The box a renderer gives the background image
backgroundOf(by, config) ==
  IF by = "CanvasEditor" THEN backgroundStyle(config)
  ELSE IF by = "exportCanvas" THEN drawnBackground(config)
  ELSE canvasBackground(config)

\* A renderer has returned: its result is kept, its arguments are as they were
Returned(by, maxWidth, tree) ==
  /\ Len(output) < MaxRenders
  /\ output' = Append(output, [by |-> by, maxWidth |-> maxWidth, tree |-> tree,
                               background |-> backgroundOf(by, canvasConfig)])
  /\ lastOp' = Op(by, 0, NoPoint)
  /\ UNCHANGED <<currentView, canvasConfig, elements, selectedElement, isBackgroundSelected,
                 currentTemplateId, currentTemplateName, elementState, backgroundState,
                 nextId, downAt, committed, nOps, nMoves, urlParams, exportJob, history,
                 serviceVars>>

\* A preview that uses up the substitutions it has applied
previewConsumingParams(maxWidth) ==
  /\ Len(output) < MaxRenders
  /\ output' = Append(output, [by |-> "renderCanvas", maxWidth |-> maxWidth,
                               tree |-> renderCanvas(canvasConfig, elements, urlParams,
                                                     maxWidth),
                               background |-> backgroundOf("renderCanvas", canvasConfig)])
  /\ urlParams' = NoParams
  /\ lastOp' = Op("renderCanvas", 0, NoPoint)
  /\ UNCHANGED <<currentView, canvasConfig, elements, selectedElement, isBackgroundSelected,
                 currentTemplateId, currentTemplateName, elementState, backgroundState,
                 nextId, downAt, committed, nOps, nMoves, exportJob, history, serviceVars>>

preview(maxWidth) ==
  Returned("renderCanvas", maxWidth, renderCanvas(canvasConfig, elements, urlParams, maxWidth))

previewBoxed(maxWidth) ==
  Returned("renderCanvasBoxed", maxWidth,
           renderCanvasBoxed(canvasConfig, elements, urlParams, maxWidth))

editorRender == Returned("CanvasEditor", 800, CanvasEditor(canvasConfig, elements, urlParams))

export == Returned("exportCanvas", Undef, exportCanvas(canvasConfig, elements))

NextRender ==
  \/ \E maxWidth \in MaxWidths : preview(maxWidth)
  \/ \E maxWidth \in MaxWidths : previewBoxed(maxWidth)
  \/ editorRender
  \/ export

SpecRender == InitRender /\ [][NextRender]_vars


(***************************************************************************)
(* The dialogs that validate what was typed before they send it: save      *)
(* template, update template, and the group and schedule forms of the      *)
(* schedule modal. Names are sequences of characters here.                 *)
(***************************************************************************)
MaxSteps == 7

RECURSIVE TrimLeft(_)
TrimLeft(s) == IF s # <<>> /\ Head(s) = " " THEN TrimLeft(Tail(s)) ELSE s
RECURSIVE TrimRight(_)
TrimRight(s) ==
  IF s # <<>> /\ s[Len(s)] = " " THEN TrimRight(SubSeq(s, 1, Len(s) - 1)) ELSE s
\* String.prototype.trim
Trim(s) == TrimRight(TrimLeft(s))

\* parseInt of a select's value
ParseInt(s) == IF s = "0" THEN 0 ELSE IF s = "1" THEN 1 ELSE NaN

Names == {<<>>, <<" ">>, <<"b">>, <<" ", "b">>}
CompleteSchedule ==
  [groupId |-> "g1", month |-> "1", day |-> "1", hour |-> "0", minute |-> "0"]
ScheduleInputs ==
  {[f \in ScheduleFields |-> IF f = missing THEN "" ELSE CompleteSchedule[f]] :
     missing \in ScheduleFields \cup {"none"}}
SavedIds == {"t9"}

\* A request as sent, its answer awaited
Request(api, instance, name, fields) ==
  [api |-> api, instance |-> instance, name |-> name,
   schedule |-> [f \in ScheduleFields \ {"groupId"} |-> ParseInt(fields[f])],
   groupId |-> fields.groupId, id |-> "", status |-> "pending", result |-> ""]

Pending == {i \in DOMAIN requests : requests[i].status = "pending"}

\* The schedule modal stays mounted while closed
ClosedSchedule == [NoDialog EXCEPT !.kind = "schedule"]

InitDialog ==
  /\ currentView \in {"dashboard", "editor"}
  /\ canvasConfig = DefaultConfig
  /\ elements = <<>>
  /\ selectedElement = <<>>
  /\ isBackgroundSelected = FALSE
  /\ \/ currentTemplateId = "" /\ currentTemplateName = <<>>
     \/ currentTemplateId = "t1" /\ currentTemplateName = <<"b">>
  /\ elementState = <<>>
  /\ backgroundState = IdleBackground
  /\ nextId = 0
  /\ downAt = [el |-> <<>>, bg |-> NoDowns]
  /\ committed = NoCommit
  /\ lastOp = Op("init", 0, NoPoint)
  /\ nOps = 0
  /\ nMoves = 0
  /\ urlParams = NoParams
  /\ history = NoHistory
  /\ output = <<>>
  /\ exportJob = NoExport
  /\ dialog = IF currentView = "dashboard" THEN ClosedSchedule ELSE NoDialog
  /\ requests = <<>>
  /\ lists = NoLists
  /\ server = NoLists

\* One step of a dialog or of the service: the canvas, the elements and the gestures
\* are not involved
ServiceStep(name) ==
  /\ nOps < MaxSteps
  /\ nOps' = nOps + 1
  /\ lastOp' = Op(name, 0, NoPoint)
  /\ UNCHANGED <<currentView, canvasConfig, elements, selectedElement, isBackgroundSelected,
                 currentTemplateName, elementState, backgroundState, nextId, downAt,
                 committed, nMoves, renderVars, history>>

Step(name) == ServiceStep(name) /\ UNCHANGED <<lists, server>>

\* setShowSaveTemplate(true)
openSaveTemplate ==
  /\ InEditor
  /\ dialog.kind = "none"
  /\ Step("openSaveTemplate")
  /\ dialog' = [NoDialog EXCEPT !.kind = "save", !.instance = nOps + 1, !.open = TRUE]
  /\ UNCHANGED <<currentTemplateId, requests>>

\* setShowUpdateTemplate(true), offered when there is a current template
openUpdateTemplate ==
  /\ InEditor
  /\ dialog.kind = "none"
  /\ currentTemplateId # ""
  /\ Step("openUpdateTemplate")
  /\ dialog' = [NoDialog EXCEPT !.kind = "update", !.instance = nOps + 1, !.open = TRUE,
                                !.name = currentTemplateName]
  /\ UNCHANGED <<currentTemplateId, requests>>

\* ScheduleModal: isOpen becomes true and the effect calls loadData
openSchedule ==
  /\ dialog.kind = "schedule"
  /\ ~dialog.open
  /\ Step("openSchedule")
  /\ dialog' = [dialog EXCEPT !.open = TRUE, !.isLoading = TRUE, !.error = ""]
  /\ requests' = Append(requests, Request("loadData", dialog.instance, <<>>, NoSchedule))
  /\ UNCHANGED currentTemplateId

\* onClose: the X of any dialog, at any time
closeDialog ==
  /\ dialog.open
  /\ Step("onClose")
  /\ dialog' = IF dialog.kind = "schedule" THEN [dialog EXCEPT !.open = FALSE] ELSE NoDialog
  /\ UNCHANGED <<currentTemplateId, requests>>

\* The name input of the dialog in front
typeName(name) ==
  /\ dialog.open
  /\ name # dialog.name
  /\ \/ dialog.kind \in {"save", "update"} /\ ~dialog.isLoading
     \/ dialog.kind = "schedule" /\ "group" \in dialog.form
  /\ Step("typeName")
  /\ dialog' = [dialog EXCEPT !.name = name]
  /\ UNCHANGED <<currentTemplateId, requests>>

\* setShowGroupForm(true) / setShowScheduleForm(true)
showForm(form) ==
  /\ dialog.kind = "schedule"
  /\ dialog.open
  /\ form \notin dialog.form
  /\ Step("showForm")
  /\ dialog' = [dialog EXCEPT !.form = @ \cup {form}]
  /\ UNCHANGED <<currentTemplateId, requests>>

\* The selects of the schedule form
fillScheduleForm(fields) ==
  /\ dialog.kind = "schedule"
  /\ dialog.open
  /\ "schedule" \in dialog.form
  /\ fields # dialog.fields
  /\ Step("fillScheduleForm")
  /\ dialog' = [dialog EXCEPT !.fields = fields]
  /\ UNCHANGED <<currentTemplateId, requests>>

\* A validating handler: the inline error when the input is not valid, else the request
Submit(handler, valid, message, api, clearsError) ==
  /\ Step(handler)
  /\ IF ~valid
     THEN /\ dialog' = [dialog EXCEPT !.error = message]
          /\ requests' = requests
     ELSE /\ dialog' = [dialog EXCEPT !.isLoading = TRUE,
                                      !.error = IF clearsError THEN "" ELSE @]
          /\ requests' = Append(requests, Request(api, dialog.instance, Trim(dialog.name),
                                                  dialog.fields))
  /\ UNCHANGED currentTemplateId

\* handleSave with the empty-name test left out
handleSaveUnvalidated ==
  /\ dialog.kind = "save"
  /\ dialog.open
  /\ ~dialog.isLoading
  /\ Submit("handleSave", TRUE, "Please enter a template name", "saveTemplate", TRUE)

\* SaveTemplateModal.handleSave (the button, or Enter in the name input)
handleSave ==
  /\ dialog.kind = "save"
  /\ dialog.open
  /\ ~dialog.isLoading
  /\ Submit("handleSave", Trim(dialog.name) # <<>>, "Please enter a template name",
            "saveTemplate", TRUE)

\* UpdateTemplateModal.handleSubmit
handleSubmit ==
  /\ dialog.kind = "update"
  /\ dialog.open
  /\ ~dialog.isLoading
  /\ Submit("handleSubmit", Trim(dialog.name) # <<>>, "Template name is required",
            "updateTemplate", TRUE)

\* ScheduleModal.handleCreateGroup
handleCreateGroup ==
  /\ dialog.kind = "schedule"
  /\ dialog.open
  /\ "group" \in dialog.form
  /\ ~dialog.isLoading
  /\ Submit("handleCreateGroup", Trim(dialog.name) # <<>>, "Group name is required",
            "createTemplateGroup", FALSE)

\* ScheduleModal.handleCreateSchedule
handleCreateSchedule ==
  /\ dialog.kind = "schedule"
  /\ dialog.open
  /\ "schedule" \in dialog.form
  /\ ~dialog.isLoading
  /\ Submit("handleCreateSchedule", \A f \in ScheduleFields : dialog.fields[f] # "",
            "All schedule fields are required", "createSchedule", FALSE)

\* What the handlers of the schedule modal do after their request: reset the form, loadData
Reloading(reset) ==
  /\ dialog' = [reset EXCEPT !.isLoading = TRUE, !.error = ""]
  /\ UNCHANGED currentTemplateId

\* The service answers request i with success (and, for a save, the id of the
\* template it has stored)
resolve(i, id) ==
  LET r == requests[i]
      answered == [requests EXCEPT ![i].status = "ok",
                                   ![i].result = IF r.api = "saveTemplate" THEN id ELSE ""]
      reload == Request("loadData", r.instance, <<>>, NoSchedule)
  IN /\ i \in Pending
     /\ ServiceStep("resolved")
     /\ UNCHANGED lists
     /\ server' = IF r.api = "saveTemplate"
                  THEN [server EXCEPT !.templates = @ \cup {id}] ELSE server
     /\ IF r.api = "saveTemplate"
        THEN /\ currentTemplateId' = id
             /\ dialog' = IF dialog.kind = "save" THEN NoDialog ELSE dialog
             /\ requests' = answered
        ELSE IF r.api = "updateTemplate"
        THEN /\ dialog' = IF dialog.kind = "update" THEN NoDialog ELSE dialog
             /\ requests' = answered
             /\ UNCHANGED currentTemplateId
        ELSE IF r.api = "createTemplateGroup"
        THEN /\ Reloading([dialog EXCEPT !.form = @ \ {"group"}, !.name = <<>>])
             /\ requests' = Append(answered, reload)
        ELSE IF r.api = "createSchedule"
        THEN /\ Reloading([dialog EXCEPT !.form = @ \ {"schedule"}, !.fields = NoSchedule])
             /\ requests' = Append(answered, reload)
        ELSE /\ dialog' = [dialog EXCEPT !.isLoading = FALSE]
             /\ requests' = answered
             /\ UNCHANGED currentTemplateId

FailureMessage(api) ==
  IF api = "saveTemplate" THEN "Failed to save template"
  ELSE IF api = "updateTemplate" THEN "Failed to update template"
  ELSE IF api = "createTemplateGroup" THEN "Failed to save group"
  ELSE IF api = "createSchedule" THEN "Failed to create schedule"
  ELSE "Failed to load data"

\* The failure handled without the finally block: the error is shown, the flag stays
rejectKeepingBusy(i) ==
  LET r == requests[i]
  IN /\ i \in Pending
     /\ Step("rejected")
     /\ requests' = [requests EXCEPT ![i].status = "failed"]
     /\ dialog' = IF dialog.instance = r.instance /\ dialog.kind # "none"
                  THEN [dialog EXCEPT !.error = FailureMessage(r.api)]
                  ELSE dialog
     /\ UNCHANGED currentTemplateId

\* The service answers request i with a failure; a dialog that has been closed since
\* (unmounted) shows nothing of it
reject(i) ==
  LET r == requests[i]
  IN /\ i \in Pending
     /\ Step("rejected")
     /\ requests' = [requests EXCEPT ![i].status = "failed"]
     /\ dialog' = IF dialog.instance = r.instance /\ dialog.kind # "none"
                  THEN [dialog EXCEPT !.error = FailureMessage(r.api), !.isLoading = FALSE]
                  ELSE dialog
     /\ UNCHANGED currentTemplateId

NextDialog ==
  \/ openSaveTemplate
  \/ openUpdateTemplate
  \/ openSchedule
  \/ closeDialog
  \/ \E name \in Names : typeName(name)
  \/ \E form \in {"group", "schedule"} : showForm(form)
  \/ \E fields \in ScheduleInputs : fillScheduleForm(fields)
  \/ handleSave
  \/ handleSubmit
  \/ handleCreateGroup
  \/ handleCreateSchedule
  \/ \E i \in DOMAIN requests, id \in SavedIds : resolve(i, id)
  \/ \E i \in DOMAIN requests : reject(i)

SpecDialog == InitDialog /\ [][NextDialog]_vars


(***************************************************************************)
(* Deleting templates and categories: from the dashboard, and from the     *)
(* load-template modal of the editor.                                      *)
(***************************************************************************)
StoredTemplates == {"t1", "t2"}
StoredCategories == {"c1"}
Stored == [NoLists EXCEPT !.templates = StoredTemplates, !.categories = StoredCategories]

\* A request that names a template or a category
RequestFor(api, instance, id) ==
  [Request(api, instance, <<>>, NoSchedule) EXCEPT !.id = id]

\* The dashboard has loaded its lists; the editor has not opened the load modal
InitDelete ==
  /\ currentView \in {"dashboard", "editor"}
  /\ canvasConfig = DefaultConfig
  /\ elements = <<>>
  /\ selectedElement = <<>>
  /\ isBackgroundSelected = FALSE
  /\ currentTemplateId = ""
  /\ currentTemplateName = ""
  /\ elementState = <<>>
  /\ backgroundState = IdleBackground
  /\ nextId = 0
  /\ downAt = [el |-> <<>>, bg |-> NoDowns]
  /\ committed = NoCommit
  /\ lastOp = Op("init", 0, NoPoint)
  /\ nOps = 0
  /\ nMoves = 0
  /\ urlParams = NoParams
  /\ history = NoHistory
  /\ output = <<>>
  /\ exportJob = NoExport
  /\ dialog = NoDialog
  /\ requests = <<>>
  /\ server = Stored
  /\ lists = IF currentView = "dashboard" THEN Stored ELSE NoLists

DeleteStep(name) == ServiceStep(name) /\ UNCHANGED currentTemplateId

\* Dashboard.handleDeleteTemplate
dashboardDeleteTemplate(id) ==
  /\ currentView = "dashboard"
  /\ id \in lists.templates
  /\ DeleteStep("handleDeleteTemplate")
  /\ requests' = Append(requests, RequestFor("deleteTemplate", 0, id))
  /\ UNCHANGED <<dialog, lists, server>>

\* Dashboard.handleDeleteCategory
dashboardDeleteCategory(id) ==
  /\ currentView = "dashboard"
  /\ id \in lists.categories
  /\ DeleteStep("handleDeleteCategory")
  /\ requests' = Append(requests, RequestFor("deleteCategory", 0, id))
  /\ UNCHANGED <<dialog, lists, server>>

\* setShowLoadTemplate(true): the modal mounts and loads its templates
openLoadTemplate ==
  /\ InEditor
  /\ dialog.kind = "none"
  /\ DeleteStep("openLoadTemplate")
  /\ dialog' = [NoDialog EXCEPT !.kind = "load", !.instance = nOps + 1, !.open = TRUE,
                                !.isLoading = TRUE]
  /\ requests' = Append(requests, RequestFor("getTemplates", nOps + 1, ""))
  /\ lists' = [lists EXCEPT !.modalTemplates = {}, !.modalError = ""]
  /\ UNCHANGED server

\* The X of the load modal: it unmounts, its list and its error with it
closeLoadTemplate ==
  /\ dialog.kind = "load"
  /\ DeleteStep("onClose")
  /\ dialog' = NoDialog
  /\ lists' = [lists EXCEPT !.modalTemplates = {}, !.modalError = ""]
  /\ UNCHANGED <<requests, server>>

\* LoadTemplateModal.handleDeleteTemplate, the confirm() answered with yes
modalDeleteTemplate(id) ==
  /\ dialog.kind = "load"
  /\ id \in lists.modalTemplates
  /\ id # dialog.deletingId
  /\ DeleteStep("handleDeleteTemplate")
  /\ dialog' = [dialog EXCEPT !.deletingId = id]
  /\ requests' = Append(requests, RequestFor("deleteTemplate", dialog.instance, id))
  /\ UNCHANGED <<lists, server>>

\* The component that sent request r is still mounted
Mounts(r) == IF r.instance = 0 THEN currentView = "dashboard" ELSE dialog.instance = r.instance

\* The finally block of the load modal's handlers: loadTemplates clears isLoading,
\* handleDeleteTemplate clears deletingId; the dashboard's deletions have no flag
Settled(r) ==
  IF r.instance = 0 \/ ~Mounts(r) THEN dialog
  ELSE IF r.api = "getTemplates" THEN [dialog EXCEPT !.isLoading = FALSE]
  ELSE IF r.api = "deleteTemplate" THEN [dialog EXCEPT !.deletingId = ""]
  ELSE dialog

\* The service carries out request i and answers; the handler continues
deleteResolved(i) ==
  LET r == requests[i]
      answered == [requests EXCEPT ![i].status = "ok"]
  IN /\ i \in Pending
     /\ DeleteStep("resolved")
     /\ dialog' = Settled(r)
     /\ IF r.api = "deleteTemplate"
        THEN /\ r.id \in server.templates
             /\ server' = [server EXCEPT !.templates = @ \ {r.id}]
             /\ requests' = answered
             /\ lists' = IF ~Mounts(r) THEN lists
                         ELSE IF r.instance = 0
                         THEN [lists EXCEPT !.templates = @ \ {r.id}]
                         ELSE [lists EXCEPT !.modalTemplates = @ \ {r.id}]
        ELSE IF r.api = "deleteCategory"
        THEN /\ r.id \in server.categories
             /\ server' = [server EXCEPT !.categories = @ \ {r.id}]
             /\ requests' = Append(answered, RequestFor("loadData", 0, ""))
             /\ lists' = IF Mounts(r)
                         THEN [lists EXCEPT !.categories = @ \ {r.id}, !.error = ""]
                         ELSE lists
        ELSE IF r.api = "loadData"
        THEN /\ requests' = answered
             /\ lists' = IF Mounts(r)
                         THEN [lists EXCEPT !.templates = server.templates,
                                            !.categories = server.categories]
                         ELSE lists
             /\ UNCHANGED server
        ELSE /\ r.api = "getTemplates"
             /\ requests' = answered
             /\ lists' = IF Mounts(r) THEN [lists EXCEPT !.modalTemplates = server.templates]
                         ELSE lists
             /\ UNCHANGED server

\* The service answers request i with a failure; the handler's catch runs
deleteRejected(i) ==
  LET r == requests[i]
      message == IF r.api = "deleteTemplate" THEN "Failed to delete template"
                 ELSE IF r.api = "deleteCategory" THEN "Failed to delete category"
                 ELSE "Failed to load"
  IN /\ i \in Pending
     /\ DeleteStep("rejected")
     /\ requests' = [requests EXCEPT ![i].status = "failed"]
     /\ dialog' = Settled(r)
     /\ UNCHANGED server
     /\ lists' = IF ~Mounts(r) THEN lists
                 ELSE IF r.instance = 0 THEN [lists EXCEPT !.error = message]
                 ELSE IF r.api = "getTemplates"
                 THEN [lists EXCEPT !.modalError = message, !.modalTemplates = {}]
                 ELSE [lists EXCEPT !.modalError = message]

NextDelete ==
  \/ \E id \in StoredTemplates : dashboardDeleteTemplate(id)
  \/ \E id \in StoredCategories : dashboardDeleteCategory(id)
  \/ openLoadTemplate
  \/ closeLoadTemplate
  \/ \E id \in StoredTemplates : modalDeleteTemplate(id)
  \/ \E i \in DOMAIN requests : deleteResolved(i)
  \/ \E i \in DOMAIN requests : deleteRejected(i)

SpecDelete == InitDelete /\ [][NextDelete]_vars


(***************************************************************************)
(* Loading a stored template: from the dashboard's list                    *)
(* (Dashboard.handleLoadTemplate) and from the editor's load modal         *)
(* (LoadTemplateModal.handleLoadTemplate), both ending in App.loadTemplate.*)
(* CanvasTemplate.config and .elements are typed any: the service returns  *)
(* each as an object, as JSON text, or as text that is not JSON.           *)
(***************************************************************************)
StoredForms == {"object", "text", "malformed"}

TemplateOf(id) == CHOOSE t \in Templates : t.id = id

\* The JSON text of a template's config or elements, named by what it encodes
JsonStringify(id, part) == "JSON(" \o id \o "." \o part \o ")"

\* The same text cut short
Truncated(id, part) == "JSON(" \o id \o "." \o part

\* JSON.parse: the value a well-formed text encodes, or a SyntaxError
JsonParse(text) ==
  LET encoded == {<<t, part>> \in Templates \X {"config", "elements"} :
                    JsonStringify(t.id, part) = text}
  IN IF encoded = {} THEN [ok |-> FALSE]
     ELSE LET hit == CHOOSE h \in encoded : TRUE
          IN [ok |-> TRUE, value |-> IF hit[2] = "config" THEN hit[1].config
                                     ELSE hit[1].elements]

\* A field of the template as the service returns it
Returns(form, id, part, value) ==
  IF form = "object" THEN [isString |-> FALSE, value |-> value]
  ELSE [isString |-> TRUE,
        text |-> IF form = "text" THEN JsonStringify(id, part) ELSE Truncated(id, part)]

\* The CanvasTemplate the service returns for id
Fetched(id) ==
  LET t == TemplateOf(id)
  IN [id |-> id, name |-> t.name,
      config |-> Returns(server.config, id, "config", t.config),
      elements |-> Returns(server.elements, id, "elements", t.elements)]

\* typeof v === 'string' ? JSON.parse(v) : v
ParsedIfString(v) == IF v.isString THEN JsonParse(v.text) ELSE [ok |-> TRUE, value |-> v.value]

AsParsed(value) == [isString |-> FALSE, value |-> value]

\* The editor is shown after a session with t1, or with no earlier session; the
\* dashboard has loaded its lists
InitLoad ==
  /\ currentView \in {"dashboard", "editor"}
  /\ \/ /\ currentTemplateId = ""
        /\ currentTemplateName = ""
        /\ canvasConfig = DefaultConfig
        /\ elements = <<>>
     \/ /\ currentTemplateId = "t1"
        /\ currentTemplateName = TemplateOf("t1").name
        /\ canvasConfig = TemplateOf("t1").config
        /\ elements = TemplateOf("t1").elements
  /\ selectedElement = <<>>
  /\ isBackgroundSelected = FALSE
  /\ elementState = Mounted(elements, <<>>, IdleElement)
  /\ backgroundState = IdleBackground
  /\ nextId = 0
  /\ downAt = [el |-> Mounted(elements, <<>>, NoDowns), bg |-> NoDowns]
  /\ committed = NoCommit
  /\ lastOp = Op("init", 0, NoPoint)
  /\ nOps = 0
  /\ nMoves = 0
  /\ urlParams = NoParams
  /\ history = NoHistory
  /\ output = <<>>
  /\ exportJob = NoExport
  /\ dialog = NoDialog
  /\ requests = <<>>
  /\ \E cf \in StoredForms, ef \in StoredForms :
       server = [templates |-> StoredTemplates, categories |-> StoredCategories,
                 error |-> "", modalTemplates |-> {}, modalError |-> "",
                 config |-> cf, elements |-> ef]
  /\ lists = IF currentView = "dashboard" THEN Stored ELSE NoLists

LoadStep(name) ==
  /\ nOps < MaxSteps
  /\ nOps' = nOps + 1
  /\ lastOp' = Op(name, 0, NoPoint)
  /\ UNCHANGED <<isBackgroundSelected, nextId, committed, nMoves, renderVars, server>>

\* App.loadTemplate(config, elements, templateId, templateName) on whatever it is
\* handed. A string has none of the fields of a CanvasConfig: each reads undefined.
\* A string has no map: CanvasEditor's elements.map throws while rendering, no error
\* boundary catches it, and React unmounts the whole application.
loadTemplateAsGiven(config, els, id, name) ==
  /\ canvasConfig' = IF config.isString THEN AsConfig(<<>>) ELSE config.value
  /\ elements' = IF els.isString THEN <<>> ELSE els.value
  /\ selectedElement' = <<>>
  /\ currentTemplateId' = id
  /\ currentTemplateName' = name
  /\ currentView' = IF els.isString THEN "unmounted" ELSE "editor"
  /\ history' = IF id # ""
                THEN pushState(history, SearchParamsSet(Search(history), "template", id))
                ELSE history
  /\ Render(elementState, backgroundState, downAt)

\* Dashboard.handleLoadTemplate(template)
dashboardLoadTemplate(id) ==
  LET template == Fetched(id)
      config == ParsedIfString(template.config)
      els == ParsedIfString(template.elements)
  IN /\ currentView = "dashboard"
     /\ id \in lists.templates
     /\ LoadStep("handleLoadTemplate")
     /\ UNCHANGED <<dialog, requests>>
     /\ IF config.ok /\ els.ok
        THEN /\ loadTemplateAsGiven(AsParsed(config.value), AsParsed(els.value),
                                    template.id, template.name)
             /\ lists' = NoLists
        ELSE /\ lists' = [lists EXCEPT
                            !.error = "Failed to load template. Template data may be corrupted."]
             /\ UNCHANGED <<currentView, canvasConfig, elements, selectedElement,
                            currentTemplateId, currentTemplateName, elementState,
                            backgroundState, downAt, history>>

\* LoadTemplateModal.handleLoadTemplate(template), up to the await
modalLoadTemplate(id) ==
  /\ dialog.kind = "load"
  /\ id \in lists.modalTemplates
  /\ DeleteStep("handleLoadTemplate")
  /\ requests' = Append(requests, RequestFor("getTemplate", dialog.instance, id))
  /\ UNCHANGED <<dialog, lists, server>>

\* apiService.getTemplate answers request i; handleLoadTemplate continues with
\* onLoad(fullTemplate.config, fullTemplate.elements, ...) and onClose()
loadResolved(i) ==
  LET r == requests[i]
      fullTemplate == Fetched(r.id)
  IN /\ i \in Pending
     /\ r.api = "getTemplate"
     /\ LoadStep("resolved")
     /\ requests' = [requests EXCEPT ![i].status = "ok"]
     /\ loadTemplateAsGiven(fullTemplate.config, fullTemplate.elements,
                            fullTemplate.id, fullTemplate.name)
     /\ dialog' = NoDialog
     /\ lists' = [lists EXCEPT !.modalTemplates = {}, !.modalError = ""]

NextLoad ==
  \/ \E id \in StoredTemplates : dashboardLoadTemplate(id)
  \/ openLoadTemplate
  \/ closeLoadTemplate
  \/ \E id \in StoredTemplates : modalLoadTemplate(id)
  \/ \E i \in DOMAIN requests : deleteResolved(i)
  \/ \E i \in DOMAIN requests : loadResolved(i)
  \/ \E i \in DOMAIN requests : deleteRejected(i)

SpecLoad == InitLoad /\ [][NextLoad]_vars


(***************************************************************************)
(* The page URL and the substitutions of the live editor: App's            *)
(* parseUrlParams effect (mount and popstate) and the pushState of         *)
(* loadTemplate.                                                           *)
(***************************************************************************)
QueryKeys == {"v", "template"}
QueryValues == {"a", "b"}
QueryPairs == QueryKeys \X QueryValues

\* The query strings the page is opened with: at most MaxLen pairs, keys may repeat
Queries ==
  UNION {[1..n -> QueryPairs] : n \in 0..MaxLen}

\* params[key] = value
Assigned(params, key, value) ==
  [k \in DOMAIN params \cup {key} |-> IF k = key THEN value ELSE params[k]]

\* parseUrlParams: searchParams.forEach((value, key) => { params[key] = value })
RECURSIVE forEachPair(_, _, _)
forEachPair(query, i, params) ==
  IF i > Len(query) THEN params
  ELSE forEachPair(query, i + 1, Assigned(params, query[i][1], query[i][2]))

parseUrlParams(query) == forEachPair(query, 1, NoParams)

\* The application has mounted on a page opened with some query string: the effect
\* has parsed it
InitUrl ==
  /\ currentView = "dashboard"
  /\ canvasConfig = DefaultConfig
  /\ elements = <<>>
  /\ selectedElement = <<>>
  /\ isBackgroundSelected = FALSE
  /\ currentTemplateId = ""
  /\ currentTemplateName = ""
  /\ elementState = <<>>
  /\ backgroundState = IdleBackground
  /\ nextId = 0
  /\ downAt = [el |-> <<>>, bg |-> NoDowns]
  /\ committed = NoCommit
  /\ lastOp = Op("init", 0, NoPoint)
  /\ nOps = 0
  /\ nMoves = 0
  /\ \E query \in Queries :
       /\ history = [entries |-> <<query>>, at |-> 1]
       /\ urlParams = parseUrlParams(query)
  /\ output = <<>>
  /\ exportJob = NoExport
  /\ dialog = NoDialog
  /\ requests = <<>>
  /\ lists = NoLists
  /\ server = NoLists

\* The user goes back (by = -1) or forward (by = 1) in the session history; every
\* entry belongs to this document, so the window gets a popstate event and
\* handlePopState runs parseUrlParams
popstate(by) ==
  /\ history.at + by \in DOMAIN history.entries
  /\ nOps < MaxOps
  /\ nOps' = nOps + 1
  /\ lastOp' = Op("popstate", 0, NoPoint)
  /\ history' = [history EXCEPT !.at = @ + by]
  /\ urlParams' = parseUrlParams(Search(history'))
  /\ UNCHANGED <<currentView, canvasConfig, elements, selectedElement, isBackgroundSelected,
                 currentTemplateId, currentTemplateName, elementState, backgroundState,
                 nextId, downAt, committed, nMoves, output, exportJob, serviceVars>>

NextUrl ==
  \/ createNewTemplate
  \/ \E t \in Templates : loadTemplate(t)
  \/ goToDashboard
  \/ \E by \in {0 - 1, 1} : popstate(by)

SpecUrl == InitUrl /\ [][NextUrl]_vars


(***************************************************************************)
(* Pointer-down and click on the targets of a loaded template, from every  *)
(* selection the editor can hold with all targets idle.                    *)
(***************************************************************************)
DownPoints == {DownPoint, [x |-> 730, y |-> 140]}

PointerTemplate == TemplateOf("t1")

\* The element addTextElement appends to the loaded template
AddedText ==
  [id |-> 1, x |-> 50, y |-> 50,
   variableName |-> VarName("text", Len(PointerTemplate.elements) + 1, 0),
   data |-> TextData(200, 50)]

\* The background after a press at DownPoint and the release
ReleasedBackground ==
  [IdleBackground EXCEPT !.dragStart = [x |-> DownPoint.x, y |-> DownPoint.y,
                                        elementX |-> bgX(PointerTemplate.config),
                                        elementY |-> bgY(PointerTemplate.config)]]

\* Template t1 has been loaded into the editor and the selection is: nothing; an
\* element picked in the list; the background, pressed and released; or the
\* background and, with it, the text element added after that
InitPointer ==
  /\ currentView = "editor"
  /\ canvasConfig = PointerTemplate.config
  /\ currentTemplateId = PointerTemplate.id
  /\ currentTemplateName = PointerTemplate.name
  /\ history = pushState(NoHistory, SearchParamsSet(NoQuery, "template", PointerTemplate.id))
  /\ \/ /\ elements = PointerTemplate.elements
        /\ isBackgroundSelected = FALSE
        /\ selectedElement \in {<<>>} \cup {<<elements[i]>> : i \in DOMAIN elements}
        /\ backgroundState = IdleBackground
        /\ downAt = [el |-> Mounted(elements, <<>>, NoDowns), bg |-> NoDowns]
        /\ nextId = 0
     \/ /\ isBackgroundSelected = TRUE
        /\ backgroundState = ReleasedBackground
        /\ \/ /\ elements = PointerTemplate.elements
              /\ selectedElement = <<>>
              /\ nextId = 0
           \/ /\ elements = Append(PointerTemplate.elements, AddedText)
              /\ selectedElement = <<AddedText>>
              /\ nextId = 1
        /\ downAt = [el |-> Mounted(elements, <<>>, NoDowns),
                     bg |-> [NoDowns EXCEPT !.drag =
                               Down(DownPoint, bgX(canvasConfig), bgY(canvasConfig),
                                    bgWidth(canvasConfig), bgHeight(canvasConfig),
                                    canvasConfig)]]
  /\ elementState = Mounted(elements, <<>>, IdleElement)
  /\ committed = NoCommit
  /\ lastOp = Op("init", 0, NoPoint)
  /\ nOps = 0
  /\ nMoves = 0
  /\ urlParams = NoParams
  /\ output = <<>>
  /\ exportJob = NoExport
  /\ dialog = NoDialog
  /\ requests = <<>>
  /\ lists = NoLists
  /\ server = NoLists

NextPointer ==
  \/ \E i \in DOMAIN elements, e \in DownPoints : elementMouseDown(i, e)
  \/ \E i \in DOMAIN elements, handle \in ElementHandles, e \in DownPoints :
       elementResizeMouseDown(i, handle, e)
  \/ \E e \in DownPoints : backgroundMouseDown(e)
  \/ \E handle \in BackgroundHandles, e \in DownPoints : backgroundResizeMouseDown(handle, e)
  \/ mouseUp
  \/ clickEmptyCanvas
  \/ clickOnTarget

SpecPointer == InitPointer /\ [][NextPointer]_vars


(***************************************************************************)
(* A gesture on the background: the pointer is down on its body or on one  *)
(* of its handles, and moves.                                              *)
(***************************************************************************)
BgXs == {Undef, 0, 50}
BgYs == {Undef, 50}
BgWidths == {Undef, 10, 350}
BgHeights == {Undef, 250}

BackgroundConfigs ==
  {AsConfig([width |-> w, height |-> h, backgroundImage |-> "bg.png",
             backgroundImageX |-> bx, backgroundImageY |-> by,
             backgroundImageWidth |-> bw, backgroundImageHeight |-> bh]) :
     w \in CanvasWidths, h \in CanvasHeights, bx \in BgXs, by \in BgYs,
     bw \in BgWidths, bh \in BgHeights}

BackgroundMoves ==
  {[x |-> 150, y |-> 130], [x |-> 0 - 50, y |-> 0 - 20], [x |-> 800, y |-> 600]}

\* The background's state after handleMouseDown at DownPoint
PressedBackground(config) ==
  [IdleBackground EXCEPT !.isDragging = TRUE,
                         !.dragStart = [x |-> DownPoint.x, y |-> DownPoint.y,
                                        elementX |-> bgX(config), elementY |-> bgY(config)]]

\* The same after handleMouseUp and handleResizeMouseDown(handle) at DownPoint
HandlePressedBackground(config, handle) ==
  [PressedBackground(config) EXCEPT
     !.isDragging = FALSE, !.isResizing = TRUE, !.resizeHandle = handle,
     !.resizeStart = [x |-> DownPoint.x, y |-> DownPoint.y,
                      width |-> bgWidth(config), height |-> bgHeight(config),
                      elementX |-> bgX(config), elementY |-> bgY(config)]]

\* The editor shows a canvas with a background image and two elements; the
\* background has been pressed (and is selected), or pressed, released and pressed
\* again on a handle
InitBackground ==
  /\ currentView = "editor"
  /\ canvasConfig \in BackgroundConfigs
  /\ elements = PointerTemplate.elements
  /\ selectedElement = <<>>
  /\ isBackgroundSelected = TRUE
  /\ currentTemplateId = ""
  /\ currentTemplateName = ""
  /\ elementState = Mounted(elements, <<>>, IdleElement)
  /\ LET pressed == Down(DownPoint, bgX(canvasConfig), bgY(canvasConfig),
                         bgWidth(canvasConfig), bgHeight(canvasConfig), canvasConfig)
     IN \/ /\ backgroundState = PressedBackground(canvasConfig)
           /\ downAt = [el |-> Mounted(elements, <<>>, NoDowns),
                        bg |-> [NoDowns EXCEPT !.drag = pressed]]
           /\ lastOp = Op("backgroundMouseDown", 0, DownPoint)
        \/ /\ \E handle \in BackgroundHandles :
                backgroundState = HandlePressedBackground(canvasConfig, handle)
           /\ downAt = [el |-> Mounted(elements, <<>>, NoDowns),
                        bg |-> [drag |-> pressed, resize |-> pressed]]
           /\ lastOp = Op("backgroundResizeMouseDown", 0, DownPoint)
  /\ nextId = 0
  /\ committed = NoCommit
  /\ nOps = 0
  /\ nMoves = 0
  /\ urlParams = NoParams
  /\ history = NoHistory
  /\ output = <<>>
  /\ exportJob = NoExport
  /\ dialog = NoDialog
  /\ requests = <<>>
  /\ lists = NoLists
  /\ server = NoLists

NextBackground ==
  \/ \E e \in BackgroundMoves : mouseMove(e, NoRect, TRUE)
  \/ mouseUp

SpecBackground == InitBackground /\ [][NextBackground]_vars


(***************************************************************************)
(* Property edits: the elements tab of the PropertiesPanel changes the     *)
(* selected element through updateElement, between the other operations   *)
(* of the editor.                                                          *)
(***************************************************************************)
\* The updates the inputs of the elements tab pass for selected element sel
PanelEdits(sel) ==
  {[x |-> 300], [y |-> 0],
   [variableName |-> [sel.variableName EXCEPT !.n = 9]],
   [data |-> [sel.data EXCEPT !.width = 120]],
   [data |-> [sel.data EXCEPT !.height = 40]]}

\* The elements tab shows the selected element unless the background is selected
ElementsTabShowsSelected == ~isBackgroundSelected /\ selectedElement # <<>>

\* An updateElement that changes the list and leaves the selected element
updateSelectedElementListOnly(updates) ==
  LET id == selectedElement[1].id
  IN /\ InEditor
     /\ ElementsTabShowsSelected
     /\ updates \in PanelEdits(selectedElement[1])
     /\ Tick(Op("updateElement", id, NoPoint))
     /\ elements' = [i \in DOMAIN elements |->
                       IF elements[i].id = id THEN Merge(elements[i], updates)
                       ELSE elements[i]]
     /\ UNCHANGED <<currentView, canvasConfig, isBackgroundSelected, currentTemplateId,
                    currentTemplateName, nextId, selectedElement>>
     /\ Render(elementState, backgroundState, downAt)

\* PropertiesPanel.updateSelectedElement(updates): updateElement(selectedElement.id, updates)
updateSelectedElement(updates) ==
  LET id == selectedElement[1].id
  IN /\ InEditor
     /\ ElementsTabShowsSelected
     /\ updates \in PanelEdits(selectedElement[1])
     /\ Tick(Op("updateElement", id, NoPoint))
     /\ elements' = [i \in DOMAIN elements |->
                       IF elements[i].id = id THEN Merge(elements[i], updates)
                       ELSE elements[i]]
     /\ selectedElement' = <<Merge(selectedElement[1], updates)>>
     /\ UNCHANGED <<currentView, canvasConfig, isBackgroundSelected, currentTemplateId,
                    currentTemplateName, nextId>>
     /\ Render(elementState, backgroundState, downAt)

NextSelection ==
  \/ Next
  \/ \E updates \in UNION {PanelEdits(elements[i]) : i \in DOMAIN elements} :
       updateSelectedElement(updates)

SpecSelection == Init /\ [][NextSelection]_vars

(***************************************************************************)
(* The raster export of the ExportModal as it runs: exportCanvas starts    *)
(* the load of the background image, drawElements starts the loads of the  *)
(* image elements and takes the download, and the load callbacks arrive    *)
(* one by one in any order.                                                *)
(***************************************************************************)
\* The load of the background image, among the loads of the elements' images (by id)
BackgroundLoad == 0

\* The elements drawElements draws at once, and those it creates an Image for
TextsOf(els) == {els[i].id : i \in {j \in DOMAIN els : els[j].data.type = "text"}}
ImagesWithSrc(els) ==
  {els[i].id : i \in {j \in DOMAIN els : /\ els[j].data.type = "image"
                                          /\ TruthyStr(els[j].data.src)}}

InitExport ==
  /\ InitRender
  /\ urlParams = NoParams

\* What is left unchanged by the steps of an export
ExportStep(name) ==
  /\ lastOp' = Op(name, 0, NoPoint)
  /\ UNCHANGED <<currentView, canvasConfig, elements, selectedElement, isBackgroundSelected,
                 currentTemplateId, currentTemplateName, elementState, backgroundState,
                 nextId, downAt, committed, nOps, nMoves, urlParams, output, history,
                 serviceVars>>

\* drawElements(): the text is drawn, an Image is created for every image element
\* with a src, and toDataURL and link.click() follow in the same call
drawElements(job) ==
  [job EXCEPT !.drawn = @ \cup TextsOf(elements),
              !.pending = @ \cup ImagesWithSrc(elements),
              !.downloaded = <<job.drawn \cup TextsOf(elements)>>]

\* exportCanvas(): with a background image its load is started; without one
\* drawElements is called before the line that declares it, and the catch block
\* reports 'Export failed'
exportClicked ==
  /\ ~exportJob.started
  /\ exportJob' =
       IF TruthyStr(canvasConfig.backgroundImage)
       THEN [NoExport EXCEPT !.started = TRUE, !.pending = {BackgroundLoad}]
       ELSE [NoExport EXCEPT !.started = TRUE, !.failed = TRUE]
  /\ ExportStep("exportCanvas")

\* img.onload of the background image
backgroundLoaded ==
  /\ BackgroundLoad \in exportJob.pending
  /\ exportJob' = drawElements([exportJob EXCEPT !.pending = @ \ {BackgroundLoad},
                                                 !.drawn = @ \cup {BackgroundLoad}])
  /\ ExportStep("backgroundLoaded")

\* img.onload of the image of element id
imageLoaded(id) ==
  /\ id \in exportJob.pending \ {BackgroundLoad}
  /\ exportJob' = [exportJob EXCEPT !.pending = @ \ {id}, !.drawn = @ \cup {id}]
  /\ ExportStep("imageLoaded")

NextExport ==
  \/ exportClicked
  \/ backgroundLoaded
  \/ \E id \in Ids(elements) : imageLoaded(id)

SpecExport == InitExport /\ [][NextExport]_vars

(***************************************************************************)
(* The busy flags of the dialogs: the save, update, schedule and load      *)
(* modals send their requests, and the service answers every request in    *)
(* the end, with success or with a failure.                                *)
(***************************************************************************)
DialogApis ==
  {"saveTemplate", "updateTemplate", "createTemplateGroup", "createSchedule", "loadData"}
ModalApis == {"getTemplates", "deleteTemplate"}

\* The answers a request in flight still brings: its own, and for the handlers of
\* the schedule modal the one of the loadData that follows a success
RECURSIVE Owed(_)
Owed(reqs) ==
  IF reqs = <<>> THEN 0
  ELSE (IF Head(reqs).status # "pending" THEN 0
        ELSE IF Head(reqs).api \in {"createTemplateGroup", "createSchedule"} THEN 2
        ELSE 1) + Owed(Tail(reqs))

InitBusy ==
  /\ currentView \in {"dashboard", "editor"}
  /\ canvasConfig = DefaultConfig
  /\ elements = <<>>
  /\ selectedElement = <<>>
  /\ isBackgroundSelected = FALSE
  /\ \/ currentTemplateId = "" /\ currentTemplateName = <<>>
     \/ currentTemplateId = "t1" /\ currentTemplateName = <<"b">>
  /\ elementState = <<>>
  /\ backgroundState = IdleBackground
  /\ nextId = 0
  /\ downAt = [el |-> <<>>, bg |-> NoDowns]
  /\ committed = NoCommit
  /\ lastOp = Op("init", 0, NoPoint)
  /\ nOps = 0
  /\ nMoves = 0
  /\ urlParams = NoParams
  /\ history = NoHistory
  /\ output = <<>>
  /\ exportJob = NoExport
  /\ dialog = IF currentView = "dashboard" THEN ClosedSchedule ELSE NoDialog
  /\ requests = <<>>
  /\ server = Stored
  /\ lists = IF currentView = "dashboard" THEN Stored ELSE NoLists

\* The service answers a request, and the handler that awaits it continues
Answer ==
  \/ \E i \in DOMAIN requests, id \in SavedIds :
       requests[i].api \in DialogApis /\ resolve(i, id)
  \/ \E i \in DOMAIN requests : requests[i].api \in DialogApis /\ reject(i)
  \/ \E i \in DOMAIN requests : requests[i].api \in ModalApis /\ deleteResolved(i)
  \/ \E i \in DOMAIN requests : requests[i].api \in ModalApis /\ deleteRejected(i)

\* The user stops while the answers to come still fit the steps of a behaviour
Fits == nOps' + Owed(requests') <= MaxSteps

NextBusy ==
  \/ openSaveTemplate /\ Fits
  \/ openUpdateTemplate /\ Fits
  \/ openSchedule /\ Fits
  \/ closeDialog /\ Fits
  \/ \E name \in {<<>>, <<"b">>} : typeName(name) /\ Fits
  \/ \E form \in {"group", "schedule"} : showForm(form) /\ Fits
  \/ fillScheduleForm(CompleteSchedule) /\ Fits
  \/ handleSave /\ Fits
  \/ handleSubmit /\ Fits
  \/ handleCreateGroup /\ Fits
  \/ handleCreateSchedule /\ Fits
  \/ openLoadTemplate /\ Fits
  \/ closeLoadTemplate /\ Fits
  \/ \E id \in StoredTemplates : modalDeleteTemplate(id) /\ Fits
  \/ Answer

SpecBusy == InitBusy /\ [][NextBusy]_vars /\ WF_vars(Answer)


(***************************************************************************)
(* The current template and the storage: a session that loads, saves,      *)
(* starts anew and deletes, from the dashboard and from the editor's       *)
(* dialogs.                                                                *)
(***************************************************************************)
\* The service returns config and elements as objects
InitCurrent ==
  /\ InitLoad
  /\ server.config = "object"
  /\ server.elements = "object"

\* apiService.getTemplate finds only what is stored
NextCurrent ==
  \/ createNewTemplate
  \/ \E id \in StoredTemplates : dashboardLoadTemplate(id)
  \/ \E id \in StoredTemplates : dashboardDeleteTemplate(id)
  \/ openLoadTemplate
  \/ closeLoadTemplate
  \/ \E id \in StoredTemplates : modalLoadTemplate(id)
  \/ \E id \in StoredTemplates : modalDeleteTemplate(id)
  \/ \E i \in DOMAIN requests : requests[i].id \in server.templates /\ loadResolved(i)
  \/ \E i \in DOMAIN requests : deleteResolved(i)
  \/ openSaveTemplate
  \/ typeName(<<"b">>)
  \/ handleSave
  \/ \E i \in DOMAIN requests, id \in SavedIds :
       requests[i].api = "saveTemplate" /\ resolve(i, id)

SpecCurrent == InitCurrent /\ [][NextCurrent]_vars


(***************************************************************************)
(* The dashboard's category filter: the sidebar's buttons with their       *)
(* counters, and the list of templates next to them.                       *)
(***************************************************************************)
\* selectedCategoryId === null
Null == "<null>"

\* template.category is null or undefined
NoCategory == "<no category>"

DashboardCategories == {"c1", "c2"}

\* templates.filter(template => template.category?.id === id)
InCategory(ls, id) == {t \in ls.templates : ls.category[t] # NoCategory /\ ls.category[t] = id}

\* templates.filter(template => !template.category)
Uncategorized(ls) == {t \in ls.templates : ls.category[t] = NoCategory}

uncategorizedCount(ls) == Cardinality(Uncategorized(ls))

categoryTemplateCount(ls, id) == Cardinality(InCategory(ls, id))

\* The conditional of Dashboard: its first test is the truthiness of the selection
filteredTemplates(ls) ==
  IF ls.selectedCategoryId # Null /\ ls.selectedCategoryId # ""
  THEN InCategory(ls, ls.selectedCategoryId)
  ELSE IF ls.selectedCategoryId = "uncategorized"
  THEN Uncategorized(ls)
  ELSE ls.templates

\* The dashboard has loaded its templates, each with or without a category
InitFilter ==
  /\ currentView = "dashboard"
  /\ canvasConfig = DefaultConfig
  /\ elements = <<>>
  /\ selectedElement = <<>>
  /\ isBackgroundSelected = FALSE
  /\ currentTemplateId = ""
  /\ currentTemplateName = ""
  /\ elementState = <<>>
  /\ backgroundState = IdleBackground
  /\ nextId = 0
  /\ downAt = [el |-> <<>>, bg |-> NoDowns]
  /\ committed = NoCommit
  /\ lastOp = Op("init", 0, NoPoint)
  /\ nOps = 0
  /\ nMoves = 0
  /\ urlParams = NoParams
  /\ history = NoHistory
  /\ output = <<>>
  /\ exportJob = NoExport
  /\ dialog = NoDialog
  /\ requests = <<>>
  /\ server = [Stored EXCEPT !.categories = DashboardCategories]
  /\ \E category \in [StoredTemplates -> DashboardCategories \cup {NoCategory}] :
       lists = [templates |-> StoredTemplates, categories |-> DashboardCategories,
                error |-> "", modalTemplates |-> {}, modalError |-> "",
                category |-> category, selectedCategoryId |-> Null]

\* setSelectedCategoryId(id): 'All Templates' sets null; 'Uncategorized' is offered
\* while uncategorizedCount > 0; every category of the list has its button
setSelectedCategoryId(id) ==
  /\ currentView = "dashboard"
  /\ \/ id = Null
     \/ id = "uncategorized" /\ uncategorizedCount(lists) > 0
     \/ id \in lists.categories
  /\ DeleteStep("setSelectedCategoryId")
  /\ lists' = [lists EXCEPT !.selectedCategoryId = id]
  /\ UNCHANGED <<dialog, requests, server>>

NextFilter ==
  \/ \E id \in DashboardCategories \cup {Null, "uncategorized"} : setSelectedCategoryId(id)
  \/ \E id \in StoredTemplates : dashboardDeleteTemplate(id)
  \/ \E i \in DOMAIN requests : deleteResolved(i)
  \/ \E i \in DOMAIN requests : deleteRejected(i)

SpecFilter == InitFilter /\ [][NextFilter]_vars


(***************************************************************************)
(* The variable names the panel gives to new elements: a canvas that was   *)
(* empty, and elements added and deleted on it.                            *)
(***************************************************************************)
\* The elements after addTextElement or addImageElement has run for each of kinds on
\* an empty canvas
Added(kinds) ==
  [i \in DOMAIN kinds |->
     [id |-> i, x |-> 50, y |-> 50, variableName |-> VarName(kinds[i], i, 0),
      data |-> IF kinds[i] = "text" THEN TextData(200, 50) ELSE ImageData(150, 100)]]

\* The editor on a new template, with nothing on the canvas or with the first elements
\* just added (the last of them selected by addElement)
InitNames ==
  /\ currentView = "editor"
  /\ canvasConfig = DefaultConfig
  /\ \E n \in 0..MaxLen : \E kinds \in [1..n -> {"text", "image"}] :
       /\ elements = Added(kinds)
       /\ nextId = n
       /\ selectedElement = IF n = 0 THEN <<>> ELSE <<elements[n]>>
  /\ isBackgroundSelected = FALSE
  /\ currentTemplateId = ""
  /\ currentTemplateName = ""
  /\ elementState = Mounted(elements, <<>>, IdleElement)
  /\ backgroundState = IdleBackground
  /\ downAt = [el |-> Mounted(elements, <<>>, NoDowns), bg |-> NoDowns]
  /\ committed = NoCommit
  /\ lastOp = Op("init", 0, NoPoint)
  /\ nOps = 0
  /\ nMoves = 0
  /\ urlParams = NoParams
  /\ history = NoHistory
  /\ output = <<>>
  /\ exportJob = NoExport
  /\ dialog = NoDialog
  /\ requests = <<>>
  /\ lists = NoLists
  /\ server = NoLists

NextNames ==
  \/ addTextElement
  \/ addImageElement
  \/ \E e \in PanelElements : deleteElement(e.id)

SpecNames == InitNames /\ [][NextNames]_vars

(***************************************************************************)
(* The geometry the properties speak of.                                   *)
(***************************************************************************)
clamp(v, lo, hi) == JMin(JMax(v, lo), hi)

\* An absent (undefined) field read as its default
OrDefault(v, default) == IF v = Undef THEN default ELSE v

\* The box (x, y, w, h) lies within [0, cw] x [0, ch]
Inside(x, y, w, h, cw, ch) ==
  /\ \A v \in {x, y, w, h, cw, ch} : IsNum(v)
  /\ 0 <= x
  /\ 0 <= y
  /\ x + w <= cw
  /\ y + h <= ch

\* An element's box, 100 x 50 taken for an absent width or height
ElementInside(element, config) ==
  Inside(element.x, element.y, OrDefault(element.data.width, 100),
         OrDefault(element.data.height, 50), config.width, config.height)

\* The background's box, with the defaults 0, 0, canvas width, canvas height
BackgroundInside(config) ==
  Inside(OrDefault(config.backgroundImageX, 0), OrDefault(config.backgroundImageY, 0),
         OrDefault(config.backgroundImageWidth, config.width),
         OrDefault(config.backgroundImageHeight, config.height),
         config.width, config.height)

BackgroundBusy(st) == st.isDragging \/ st.isResizing
AtRest == ActiveElements = {} /\ ~BackgroundBusy(backgroundState)

\* A pointer-down on a handle of a box that lies inside a canvas of at least 20 x 20
\* and is itself at least 20 x 20
ValidStart(d) ==
  /\ d.set
  /\ Inside(d.x, d.y, d.width, d.height, d.cw, d.ch)
  /\ d.cw >= 20
  /\ d.ch >= 20
  /\ d.width >= 20
  /\ d.height >= 20


(***************************************************************************)
(* C1 - C5                                                                 *)
(***************************************************************************)
\* C1: during an element resize that started from a box inside the canvas, at least
\* 20 x 20, every box a pointer-move commits satisfies 0 <= x, 0 <= y, x + w <= canvasW,
\* y + h <= canvasH, w >= 20 and h >= 20, whatever the handle and the moves before it.
C1_ResizeKeepsBoxValid ==
  \A id \in DOMAIN committed.box :
    LET d == downAt.el[id].resize
        b == committed.box[id]
    IN (/\ id \notin committed.dragging
        /\ ValidStart(d)
        /\ committed.config.width = d.cw
        /\ committed.config.height = d.ch)
       => /\ Inside(b.x, b.y, b.width, b.height, d.cw, d.ch)
          /\ b.width >= 20
          /\ b.height >= 20

\* C2: at rest, in a new template, every element's box (100 x 50 for a text element
\* without explicit size) lies within [0, config.width] x [0, config.height].
C2_ElementsInsideAtRest ==
  (InEditor /\ currentTemplateId = "" /\ AtRest)
    => \A i \in DOMAIN elements : ElementInside(elements[i], canvasConfig)

\* C3: whenever a background image is set, the background box lies within
\* [0, config.width] x [0, config.height].
C3_BackgroundInside ==
  (InEditor /\ TruthyStr(canvasConfig.backgroundImage)) => BackgroundInside(canvasConfig)

\* C4: at most one target (an element or the background) has isDragging or isResizing
\* set, and no target has both set.
C4_AtMostOneGesture ==
  /\ Cardinality(ActiveElements) + (IF BackgroundBusy(backgroundState) THEN 1 ELSE 0) <= 1
  /\ \A id \in DOMAIN elementState :
       ~(elementState[id].isDragging /\ elementState[id].isResizing)
  /\ ~(backgroundState.isDragging /\ backgroundState.isResizing)

\* C5: the background is never selected while an element is selected.
C5_SelectionExclusive == ~(isBackgroundSelected /\ selectedElement # <<>>)


(***************************************************************************)
(* C6 - C10                                                                *)
(***************************************************************************)
\* The position a drag commits for pointer position e, from the pointer-down d and the
\* box size (w, h) on a canvas cw x ch
DragPosition(d, e, w, h, cw, ch) ==
  [x |-> clamp(JAdd(d.x, JSub(e.x, d.px)), 0, JMax(0, JSub(cw, w))),
   y |-> clamp(JAdd(d.y, JSub(e.y, d.py)), 0, JMax(0, JSub(ch, h)))]

\* The current dimensions of an element: its explicit size, else the rendered one
CurrentSize(element, rect) ==
  [width |-> IF IsNum(element.data.width) /\ element.data.width # 0
             THEN element.data.width ELSE rect.width,
   height |-> IF IsNum(element.data.height) /\ element.data.height # 0
              THEN element.data.height ELSE rect.height]

\* C6: the position a pointer-move commits for a dragged element or a dragged background
\* is (clamp(boxX0 + dx, 0, max(0, canvasW - w)), clamp(boxY0 + dy, 0, max(0, canvasH - h))),
\* with (boxX0, boxY0) the position at pointer-down, (dx, dy) the pointer's offset from the
\* pointer-down point and (w, h) the target's current dimensions: a function of this
\* move's pointer position alone.  It is the position the target has after the move
\* (for an element: when no background gesture commits in the same move).
C6_DragCommitsClampedPosition ==
  /\ \A id \in committed.dragging :
       LET size == CurrentSize(Find(elements, id)[1], committed.rect)
       IN committed.el[id] =
            DragPosition(downAt.el[id].drag, committed.e, size.width, size.height,
                         committed.config.width, committed.config.height)
  /\ committed.bgDragging =>
       LET d == DragPosition(downAt.bg.drag, committed.e, bgWidth(committed.config),
                             bgHeight(committed.config), committed.config.width,
                             committed.config.height)
       IN /\ committed.bg[1] = [backgroundImageX |-> d.x, backgroundImageY |-> d.y]
          /\ canvasConfig.backgroundImageX = d.x
          /\ canvasConfig.backgroundImageY = d.y
  /\ committed.bg = <<>> =>
       \A id \in committed.dragging :
         LET element == Find(elements, id)[1]
         IN element.x = committed.el[id].x /\ element.y = committed.el[id].y

\* A drag move of an element clamped on one axis and free on the other, all numbers
C6_Witness ==
  \E id \in committed.dragging :
    LET d == downAt.el[id].drag
        u == committed.el[id]
    IN /\ IsNum(u.x) /\ IsNum(u.y)
       /\ u.x # d.x + (committed.e.x - d.px)
       /\ u.y = d.y + (committed.e.y - d.py)
       /\ u.y # d.y

\* C7: a pointer-up leaves every target idle and changes no geometry, and a pointer-move
\* delivered while every target is idle changes no geometry.
C7_PointerUpEndsGesture ==
  [][ /\ lastOp'.op = "mouseup" =>
           /\ ActiveElementsAt(elementState') = {}
           /\ ~BackgroundBusy(backgroundState')
           /\ elements' = elements
           /\ canvasConfig' = canvasConfig
      /\ (lastOp'.op = "mousemove" /\ AtRest) =>
           /\ elements' = elements
           /\ canvasConfig' = canvasConfig ]_vars

\* A pointer-move after the pointer-up that ended a drag which had moved its element
C7_Witness ==
  /\ lastOp.op = "mousemove"
  /\ AtRest
  /\ \E i \in DOMAIN elements :
       LET d == downAt.el[elements[i].id].drag
       IN d.set /\ (elements[i].x # d.x \/ elements[i].y # d.y)

\* C8: once the pointer has left the window without a pointer-up, every target is idle.
C8_LostPointerEndsGesture == lastOp.op = "pointerLeavesWindow" => AtRest

\* A step of handleCanvasConfigChange that changes the canvas size, taken with every
\* element inside the old canvas
CanvasResized ==
  /\ lastOp'.op \in {"setCanvasWidth", "setCanvasHeight", "mousemove"}
  /\ canvasConfig'.width # canvasConfig.width \/ canvasConfig'.height # canvasConfig.height
  /\ \A i \in DOMAIN elements : ElementInside(elements[i], canvasConfig)

\* An element whose size (100 x 50 when absent) does not exceed the canvas
FitsCanvas(element, config) ==
  /\ IsNum(config.width) /\ IsNum(config.height)
  /\ OrDefault(element.data.width, 100) <= config.width
  /\ OrDefault(element.data.height, 50) <= config.height

Clamped(config, element, w, h) ==
  [element EXCEPT !.x = clamp(element.x, 0, JMax(0, JSub(config.width, w))),
                  !.y = clamp(element.y, 0, JMax(0, JSub(config.height, h)))]

\* C10, as the claim states it, for all sizes: constrainElementsToCanvas is the clamp of
\* every element with its width and height (100 x 50 when absent), applying it twice
\* equals applying it once, and an element already inside is returned unchanged.
C10_ClampAllSizes ==
  LET once == constrainElementsToCanvas(canvasConfig, elements)
  IN /\ once = [i \in DOMAIN elements |->
                  Clamped(canvasConfig, elements[i], OrDefault(elements[i].data.width, 100),
                          OrDefault(elements[i].data.height, 50))]
     /\ constrainElementsToCanvas(canvasConfig, once) = once
     /\ \A i \in DOMAIN elements :
          ElementInside(elements[i], canvasConfig) => once[i] = elements[i]

\* The size constrainElementsToCanvas clamps with when 0 counts as absent
NonZeroOr(v, default) == IF v = Undef \/ v = 0 THEN default ELSE v

\* C10, amended: the same, with a width or height of 0 counted as absent.
C10_ClampIdempotent ==
  LET once == constrainElementsToCanvas(canvasConfig, elements)
      w(element) == NonZeroOr(element.data.width, 100)
      h(element) == NonZeroOr(element.data.height, 50)
  IN /\ once = [i \in DOMAIN elements |->
                  Clamped(canvasConfig, elements[i], w(elements[i]), h(elements[i]))]
     /\ constrainElementsToCanvas(canvasConfig, once) = once
     /\ \A i \in DOMAIN elements :
          Inside(elements[i].x, elements[i].y, w(elements[i]), h(elements[i]),
                 canvasConfig.width, canvasConfig.height)
            => once[i] = elements[i]

\* constrainElementsToCanvas has pulled a 500 wide element back to x = canvasW - 500
C10_Witness ==
  /\ lastOp.op = "constrainElementsToCanvas"
  /\ \E i \in DOMAIN elements :
       /\ elements[i].data.width = 500
       /\ elements[i].x > 0
       /\ elements[i].x = canvasConfig.width - 500


(***************************************************************************)
(* C11 - C20                                                               *)
(***************************************************************************)
\* The width and height handleResizeMouseDown starts from: the explicit size, else the
\* 200 x 50 of a text element without one
StartWidth(d) == OrDefault(d.width, 200)
StartHeight(d) == OrDefault(d.height, 50)

\* What a resize with a right / bottom handle commits, against the pointer-down d:
\* the position kept, the pulled dimension max(20, min(canvas - position, start + delta))
FarEdgeResize(id) ==
  LET d == downAt.el[id].resize
      b == committed.box[id]
      handle == elementState[id].resizeHandle
  IN /\ b.x = d.x
     /\ b.y = d.y
     /\ Includes(handle, "right") =>
          b.width = JMax(20, JMin(JSub(d.cw, d.x),
                                  JAdd(StartWidth(d), JSub(committed.e.x, d.px))))
     /\ Includes(handle, "bottom") =>
          b.height = JMax(20, JMin(JSub(d.ch, d.y),
                                   JAdd(StartHeight(d), JSub(committed.e.y, d.py))))

FarEdgeHandles == {"right", "bottom", "bottom-right"}

\* C11, as stated, for every element: a resize with the right, bottom or bottom-right
\* handle keeps the position and commits width = max(20, min(canvasW - x, w0 + dx)),
\* height likewise.
C11_FarEdgeResizeAnyElement ==
  \A id \in DOMAIN committed.box :
    (id \notin committed.dragging /\ elementState[id].resizeHandle \in FarEdgeHandles)
      => FarEdgeResize(id)

\* C11, amended: the same for an element whose x and y are not negative.
C11_FarEdgeResize ==
  \A id \in DOMAIN committed.box :
    LET d == downAt.el[id].resize
    IN (/\ id \notin committed.dragging
        /\ elementState[id].resizeHandle \in FarEdgeHandles
        /\ IsNum(d.x) /\ IsNum(d.y) /\ d.x >= 0 /\ d.y >= 0)
       => FarEdgeResize(id)

\* The element at (780, 580) sized 100 x 50 on the 800 x 600 canvas, its bottom-right
\* handle dragged by (+200, +200): 20 x 20 at (780, 580)
C11_Witness ==
  \E id \in DOMAIN committed.box :
    LET d == downAt.el[id].resize
    IN /\ elementState[id].resizeHandle = "bottom-right"
       /\ d.x = 780 /\ d.y = 580 /\ d.width = 100 /\ d.height = 50
       /\ d.cw = 800 /\ d.ch = 600
       /\ committed.e.x - d.px = 200 /\ committed.e.y - d.py = 200
       /\ committed.box[id] = [x |-> 780, y |-> 580, width |-> 20, height |-> 20]

\* The value the substitution rule gives an element: the substitution when present and
\* not empty, else the element's own content / src when not empty, else the placeholder
DefaultValue(element) ==
  IF element.data.type = "text" THEN element.data.content ELSE element.data.src
PlaceholderValue(element) ==
  IF element.data.type = "text" THEN "{" \o element.variableName \o "}" ELSE PlaceholderImage
Precedence(element, substitutions) ==
  IF element.variableName \in DOMAIN substitutions
       /\ substitutions[element.variableName] # ""
  THEN substitutions[element.variableName]
  ELSE IF DefaultValue(element) # "" THEN DefaultValue(element) ELSE PlaceholderValue(element)

SubstitutingRenderers == {"renderCanvas", "renderCanvasBoxed", "CanvasEditor"}

\* C12: in renderCanvas and in the live editor alike, every element displays the
\* substitution for its variable name when there is a non-empty one, else its own
\* default when non-empty, else the placeholder.
C12_SubstitutionPrecedence ==
  \A n \in DOMAIN output :
    output[n].by \in SubstitutingRenderers =>
      \A i \in DOMAIN elements :
        output[n].tree.children[i].content.value = Precedence(elements[i], urlParams)

Layout(tree) ==
  [i \in DOMAIN tree.children |->
     [key |-> tree.children[i].key, left |-> tree.children[i].left,
      top |-> tree.children[i].top, value |-> tree.children[i].content.value,
      width |-> tree.children[i].content.width,
      height |-> tree.children[i].content.height]]

\* C14: the live editor, the preview and the raster export give every element of the
\* same template the same value, position and box.
C14_RenderersAgree ==
  \A m, n \in DOMAIN output :
    (/\ output[m].by \in {"CanvasEditor", "renderCanvas", "exportCanvas"}
     /\ output[n].by \in {"CanvasEditor", "renderCanvas", "exportCanvas"})
      => Layout(output[m].tree) = Layout(output[n].tree)

\* The background's geometry fields are all absent
NoExplicitGeometry(config) ==
  /\ config.backgroundImageX = Undef /\ config.backgroundImageY = Undef
  /\ config.backgroundImageWidth = Undef /\ config.backgroundImageHeight = Undef
  /\ config.backgroundImageObjectFit = NoImage

\* C15: a background image without explicit geometry is laid out at x = 0, y = 0 with
\* the canvas's width and height and object fit cover, and a drag of it starts there.
C15_BackgroundDefaults ==
  (BackgroundMounted(canvasConfig) /\ NoExplicitGeometry(canvasConfig)) =>
    /\ backgroundStyle(canvasConfig) =
         [left |-> 0, top |-> 0, width |-> canvasConfig.width,
          height |-> canvasConfig.height, backgroundSize |-> "cover"]
    /\ lastOp.op = "backgroundMouseDown" =>
         /\ backgroundState.dragStart.elementX = 0
         /\ backgroundState.dragStart.elementY = 0

\* A background image set on a canvas narrowed to 400, its geometry never given
C15_Witness ==
  /\ BackgroundMounted(canvasConfig)
  /\ NoExplicitGeometry(canvasConfig)
  /\ canvasConfig.width = 400
  /\ backgroundStyle(canvasConfig).width = 400

\* A name that is empty or all spaces
Blank(name) == \A k \in DOMAIN name : name[k] = " "

\* What the handler is given does not pass its validation
InvalidInput(handler, d) ==
  IF handler = "handleCreateSchedule" THEN \E f \in ScheduleFields : d.fields[f] = ""
  ELSE Blank(d.name)

ValidatingHandlers ==
  {"handleSave", "handleSubmit", "handleCreateGroup", "handleCreateSchedule"}

\* C16: a save or update with an empty or all-space name, a group with an empty name
\* or a schedule with a field missing sends no request, sets the inline error and
\* leaves the dialog open and everything else as it was.
C16_ValidationAborts ==
  [][(lastOp'.op \in ValidatingHandlers /\ InvalidInput(lastOp'.op, dialog)) =>
       /\ requests' = requests
       /\ dialog'.error # ""
       /\ dialog'.open
       /\ dialog' = [dialog EXCEPT !.error = dialog'.error]
       /\ UNCHANGED <<currentView, canvasConfig, elements, selectedElement,
                      isBackgroundSelected, currentTemplateId, currentTemplateName,
                      lists, server>>]_vars

\* Enter pressed in the save dialog on a name of one space
C16_Witness ==
  /\ lastOp.op = "handleSave"
  /\ dialog.kind = "save" /\ dialog.open
  /\ dialog.name = <<" ">>
  /\ dialog.error = "Please enter a template name"
  /\ requests = <<>>

\* C20: when a save succeeds the current template id becomes the id the service
\* returned and the save dialog is closed; when it fails the current template id is
\* unchanged, an error message is shown and the save dialog stays open.
C20_SaveOutcome ==
  [][\A i \in DOMAIN requests :
       (requests[i].api = "saveTemplate" /\ requests[i].status = "pending") =>
         /\ requests'[i].status = "ok" =>
              /\ currentTemplateId' = requests'[i].result
              /\ ~(dialog'.kind = "save" /\ dialog'.open)
         /\ requests'[i].status = "failed" =>
              /\ currentTemplateId' = currentTemplateId
              /\ dialog'.kind = "save" /\ dialog'.open
              /\ dialog'.error # ""]_vars

\* The ids a step takes off a displayed list
Removed(before, after) == before \ after

\* C17: a template or category leaves a displayed list only once the service has
\* deleted it, and when a delete request fails the lists are unchanged and the
\* component that asked shows an error message.
C17_DeletionNotOptimistic ==
  [][/\ \A id \in Removed(lists.templates, lists'.templates) : id \notin server'.templates
     /\ \A id \in Removed(lists.categories, lists'.categories) : id \notin server'.categories
     /\ dialog'.kind = "load" =>
          \A id \in Removed(lists.modalTemplates, lists'.modalTemplates) :
            id \notin server'.templates
     /\ \A i \in DOMAIN requests :
          (/\ requests[i].api \in {"deleteTemplate", "deleteCategory"}
           /\ requests[i].status = "pending"
           /\ requests'[i].status = "failed")
            => /\ lists'.templates = lists.templates
               /\ lists'.categories = lists.categories
               /\ lists'.modalTemplates = lists.modalTemplates
               /\ IF requests[i].instance = 0 THEN lists'.error # ""
                  ELSE dialog'.kind = "load" /\ lists'.modalError # ""]_vars

\* The step is the session operation `name`
SessionStep(name) == nOps' = nOps + 1 /\ lastOp'.op = name

\* C19: 'new template' resets the session to an 800x600 canvas with no background
\* image, no elements, no selected element and no current template id or name;
\* 'load template' replaces config and element list with those of the loaded
\* template (no element of the previous session remains), clears the element
\* selection and sets the current template id and name to the loaded template's.
C19_SessionResetAndReplace ==
  [][/\ SessionStep("createNewTemplate") =>
          /\ canvasConfig'.width = 800 /\ canvasConfig'.height = 600
          /\ ~TruthyStr(canvasConfig'.backgroundImage)
          /\ elements' = <<>>
          /\ selectedElement' = <<>>
          /\ currentTemplateId' = ""
          /\ currentTemplateName' = ""
     /\ SessionStep("loadTemplate") =>
          \E t \in Templates :
            /\ canvasConfig' = t.config
            /\ elements' = t.elements
            /\ Len(elements') = Len(t.elements)
            /\ selectedElement' = <<>>
            /\ currentTemplateId' = t.id
            /\ currentTemplateName' = t.name]_vars

\* A template has just been loaded over a session that held another template:
\* the background selected there belongs to the earlier session, t2 has none.
C19_Witness ==
  /\ lastOp.op = "loadTemplate"
  /\ currentTemplateId = "t2"
  /\ isBackgroundSelected
  /\ elements # <<>>

\* The step loads a template whose stored config or stored elements do not parse
LoadsMalformed ==
  /\ "malformed" \in {server.config, server.elements}
  /\ nOps' = nOps + 1
  /\ \/ lastOp'.op = "handleLoadTemplate" /\ currentView = "dashboard"
     \/ lastOp'.op = "resolved" /\ \E i \in Pending :
          requests[i].api = "getTemplate" /\ requests'[i].status = "ok"

\* C18: a template whose stored config or stored elements fail to parse is never
\* applied, in part or in whole: the load is reported as a failure and config,
\* element list, selection, current template id and name and current view stay
\* as they were.
C18_MalformedNeverApplied ==
  [][LoadsMalformed =>
       /\ UNCHANGED <<canvasConfig, elements, selectedElement, currentTemplateId,
                      currentTemplateName, currentView>>
       /\ lists'.error # "" \/ lists'.modalError # ""]_vars

(***************************************************************************)
(* C21 - C30                                                               *)
(***************************************************************************)
\* The keys of a query string
KeysOf(query) == {query[i][1] : i \in DOMAIN query}

\* The value of the last pair of the query with this key
LastValueOf(query, key) ==
  LET last == CHOOSE i \in DOMAIN query :
                /\ query[i][1] = key
                /\ \A j \in DOMAIN query : query[j][1] = key => j <= i
  IN query[last][2]

\* The map is the parse of the query string
ParseOf(params, query) ==
  /\ DOMAIN params = KeysOf(query)
  /\ \A key \in KeysOf(query) : params[key] = LastValueOf(query, key)

\* C21: the substitution map of the live editor is the parse of the page URL's
\* query string, taken at load and at every navigation: after each step that
\* changes the page's URL the map has exactly the keys of the query string, each
\* with its (last) value, and the map does not change in any other step.
C21_MapIsParseOfQuery ==
  /\ ParseOf(urlParams, Search(history))
  /\ [][IF history' # history THEN ParseOf(urlParams', Search(history'))
        ELSE urlParams' = urlParams]_vars

\* The step is the operation `name`
OpStep(name) == nOps' = nOps + 1 /\ lastOp'.op = name

IdleTarget(st) == ~st.isDragging /\ ~st.isResizing

\* C22: pointer-down on the body of an idle target puts it in Dragging and makes it
\* the selected target in the same step, whatever was selected before, capturing
\* the pointer position and the target's position; pointer-down on one of the 8
\* resize handles of an idle target puts it in Resizing and starts no drag.
C22_PointerDownStartsGesture ==
  [][/\ \A id \in DOMAIN elementState :
          LET element == Find(elements, id)[1]
              after == elementState'[id]
          IN /\ (OpStep("elementMouseDown") /\ lastOp'.id = id
                   /\ IdleTarget(elementState[id])) =>
                  /\ after.isDragging /\ ~after.isResizing
                  /\ selectedElement' = <<element>>
                  /\ ~isBackgroundSelected'
                  /\ after.dragStart = [x |-> downAt'.el[id].drag.px - element.x,
                                        y |-> downAt'.el[id].drag.py - element.y]
             /\ (OpStep("elementResizeMouseDown") /\ lastOp'.id = id
                   /\ IdleTarget(elementState[id])) =>
                  /\ after.isResizing /\ ~after.isDragging
                  /\ after.resizeHandle \in ElementHandles
     /\ (OpStep("backgroundMouseDown") /\ IdleTarget(backgroundState)) =>
          /\ backgroundState'.isDragging /\ ~backgroundState'.isResizing
          /\ selectedElement' = <<>>
          /\ isBackgroundSelected'
          /\ backgroundState'.dragStart =
               [x |-> downAt'.bg.drag.px, y |-> downAt'.bg.drag.py,
                elementX |-> OrDefault(canvasConfig.backgroundImageX, 0),
                elementY |-> OrDefault(canvasConfig.backgroundImageY, 0)]
     /\ (OpStep("backgroundResizeMouseDown") /\ IdleTarget(backgroundState)) =>
          /\ backgroundState'.isResizing /\ ~backgroundState'.isDragging
          /\ backgroundState'.resizeHandle \in BackgroundHandles]_vars

\* An idle element has just been pressed while the background was the selection,
\* and a handle of the idle selected background has just been pressed
C22_Witness ==
  /\ nOps = 1
  /\ \/ /\ lastOp.op = "elementMouseDown"
        /\ backgroundState = ReleasedBackground
        /\ selectedElement # <<>>
        /\ elementState[lastOp.id].isDragging
     \/ /\ lastOp.op = "backgroundResizeMouseDown"
        /\ backgroundState.isResizing

\* C23: a click on an empty area of the canvas clears the selection completely,
\* element and background, whatever was selected before; a click that lands on an
\* element or on the background clears nothing.
C23_EmptyClickClearsSelection ==
  [][/\ OpStep("handleCanvasClick") => selectedElement' = <<>> /\ ~isBackgroundSelected'
     /\ OpStep("clickOnTarget") => UNCHANGED <<selectedElement, isBackgroundSelected>>]_vars

\* The empty canvas has just been clicked with an element and the background both
\* selected
C23_Witness ==
  /\ lastOp.op = "handleCanvasClick"
  /\ nOps = 1
  /\ nextId = 1
  /\ selectedElement = <<>>
  /\ ~isBackgroundSelected

\* A resize from pointer-down d with the pointer at e reaches neither the 20px
\* minimum nor an edge of the canvas, along x and along y
NoLimitAlongX(d, e) ==
  /\ IsNum(d.x)
  /\ StartWidth(d) - (e.x - d.px) >= 20
  /\ d.x + (e.x - d.px) >= 0
  /\ d.x + StartWidth(d) <= d.cw

NoLimitAlongY(d, e) ==
  /\ IsNum(d.y)
  /\ StartHeight(d) - (e.y - d.py) >= 20
  /\ d.y + (e.y - d.py) >= 0
  /\ d.y + StartHeight(d) <= d.ch

\* C24: an element resize is computed from the box captured at pointer-down and is
\* anchored at the edge opposite to the handle: with a handle on the left (top)
\* edge, after every pointer-move of the gesture x + width (y + height) is what it
\* was at pointer-down, as long as no move of the gesture reached the 20px minimum
\* or a canvas bound.
C24_ResizeAnchoredOpposite ==
  [][\A id \in DOMAIN committed'.box :
       LET d == downAt.el[id].resize
           handle == elementState[id].resizeHandle
           b == committed'.box[id]
           first == id \notin DOMAIN committed.box
       IN (id \notin committed'.dragging /\ d.set) =>
            /\ (/\ Includes(handle, "left")
                /\ NoLimitAlongX(d, committed'.e)
                /\ first \/ NoLimitAlongX(d, committed.e))
                 => b.x + b.width = d.x + StartWidth(d)
            /\ (/\ Includes(handle, "top")
                /\ NoLimitAlongY(d, committed'.e)
                /\ first \/ NoLimitAlongY(d, committed.e))
                 => b.y + b.height = d.y + StartHeight(d)]_vars

\* A field of the box a background pointer-move commits: the value passed to
\* onUpdate, or the value at pointer-down when the update leaves the field out
CommittedField(update, field, atDown) ==
  IF field \in DOMAIN update THEN update[field] ELSE atDown

WestHandles == {"nw", "w", "sw"}
NorthHandles == {"nw", "n", "ne"}

\* C25: when a background resize with a west-side (north-side) handle would move
\* x (y) below 0, the committed x (y) is 0 and the width (height) is reduced by the
\* overflow, so that the opposite edge stays at x0 + w0 (y0 + h0).
C25_NearEdgeOverflow ==
  [][(/\ lastOp'.op = "mousemove"
      /\ committed'.bg # <<>>
      /\ ~committed'.bgDragging
      /\ ValidStart(downAt.bg.resize))
       => LET d == downAt.bg.resize
              update == committed'.bg[1]
              handle == backgroundState.resizeHandle
              x == CommittedField(update, "backgroundImageX", d.x)
              y == CommittedField(update, "backgroundImageY", d.y)
          IN /\ (handle \in WestHandles /\ d.x + (committed'.e.x - d.px) < 0) =>
                  /\ x = 0
                  /\ x + update.backgroundImageWidth = d.x + d.width
             /\ (handle \in NorthHandles /\ d.y + (committed'.e.y - d.py) < 0) =>
                  /\ y = 0
                  /\ y + update.backgroundImageHeight = d.y + d.height]_vars

\* The box a background pointer-move computes, against the pointer-down d of its
\* gesture: the fields passed to onUpdate, the others as they were at pointer-down
BackgroundBoxValid(d) ==
  LET update == committed.bg[1]
      x == CommittedField(update, "backgroundImageX", d.x)
      y == CommittedField(update, "backgroundImageY", d.y)
      w == CommittedField(update, "backgroundImageWidth", d.width)
      h == CommittedField(update, "backgroundImageHeight", d.height)
  IN /\ Inside(x, y, w, h, d.cw, d.ch)
     /\ w >= 20
     /\ h >= 20

BackgroundDown ==
  IF committed.bgDragging THEN downAt.bg.drag ELSE downAt.bg.resize

\* C26, as stated: every box a background drag or resize pointer-move computes,
\* starting from a background box inside a canvas of at least 20 x 20, lies inside
\* the canvas and is at least 20 x 20.
C26_BackgroundBoxValidAnyStart ==
  (/\ committed.bg # <<>>
   /\ BackgroundDown.set
   /\ Inside(BackgroundDown.x, BackgroundDown.y, BackgroundDown.width,
             BackgroundDown.height, BackgroundDown.cw, BackgroundDown.ch)
   /\ BackgroundDown.cw >= 20
   /\ BackgroundDown.ch >= 20)
    => BackgroundBoxValid(BackgroundDown)

\* C26, amended: the same for a gesture that starts from a background box of at
\* least 20 x 20.
C26_BackgroundBoxValid ==
  (committed.bg # <<>> /\ ValidStart(BackgroundDown)) => BackgroundBoxValid(BackgroundDown)

\* A resize from (50, 50) 350 x 250 has been clamped at the left edge of the canvas
C26_Witness ==
  /\ committed.bg # <<>>
  /\ ~committed.bgDragging
  /\ ValidStart(downAt.bg.resize)
  /\ downAt.bg.resize.x = 50
  /\ "backgroundImageX" \in DOMAIN committed.bg[1]
  /\ committed.bg[1].backgroundImageX = 0
  /\ committed.bg[1].backgroundImageWidth > 350

\* C27: renderCanvas lays the background out by the config's background geometry: the
\* box of the background it has rendered is (backgroundImageX, backgroundImageY,
\* backgroundImageWidth, backgroundImageHeight) with fit backgroundImageObjectFit,
\* defaulting to 0, 0, the canvas's width and height and cover, which is the box the
\* editor's BackgroundImage shows.
C27_BackgroundByGeometry ==
  \A n \in DOMAIN output :
    (output[n].by = "renderCanvas" /\ BackgroundMounted(canvasConfig)) =>
      /\ output[n].background =
           [left |-> JOr(canvasConfig.backgroundImageX, 0),
            top |-> JOr(canvasConfig.backgroundImageY, 0),
            width |-> JOr(canvasConfig.backgroundImageWidth, canvasConfig.width),
            height |-> JOr(canvasConfig.backgroundImageHeight, canvasConfig.height),
            backgroundSize |-> StrOr(canvasConfig.backgroundImageObjectFit, "cover")]
      /\ \A m \in DOMAIN output :
           output[m].by = "CanvasEditor" => output[n].background = output[m].background

\* A pointer-move that a background gesture in progress has handled
BackgroundMoveStep == lastOp'.op = "mousemove" /\ committed'.bg # <<>>

Boxes(els) == [i \in DOMAIN els |-> Box(els[i])]

\* C28: a background drag or resize changes only the background geometry fields of
\* the config: every pointer-move of the gesture leaves the canvas's width and height,
\* the backgroundImage, and the position and size of every element as they were.
C28_BackgroundGestureFrame ==
  [][BackgroundMoveStep =>
       /\ canvasConfig'.width = canvasConfig.width
       /\ canvasConfig'.height = canvasConfig.height
       /\ canvasConfig'.backgroundImage = canvasConfig.backgroundImage
       /\ Boxes(elements') = Boxes(elements)]_vars

\* A pointer-move that the gesture in progress on element id has handled
ElementMoveStep(id) == lastOp'.op = "mousemove" /\ id \in DOMAIN committed'.el

\* What a gesture on an element may not change: everything of a dragged element but
\* x and y, everything of a resized one but x, y, width and height
Kept(element, dragged) ==
  [id |-> element.id, variableName |-> element.variableName,
   data |-> IF dragged THEN element.data
            ELSE [f \in DOMAIN element.data \ {"width", "height"} |-> element.data[f]]]

\* C29: an element gesture touches only the element it acts on: a pointer-move of a
\* drag or resize of element e leaves every other element as it was, and the list
\* with the same number of elements, the same ids in the same order; a drag changes
\* only e's x and y, a resize only e's x, y, width and height.
C29_ElementGestureFrame ==
  [][\A id \in DOMAIN elementState :
       ElementMoveStep(id) =>
         /\ Len(elements') = Len(elements)
         /\ \A i \in DOMAIN elements :
              /\ elements'[i].id = elements[i].id
              /\ elements[i].id # id => elements'[i] = elements[i]
              /\ elements[i].id = id =>
                   Kept(elements'[i], id \in committed'.dragging) =
                     Kept(elements[i], id \in committed'.dragging)]_vars

\* The fields of the selected element that the list's element of the same id also has
Shown(element) ==
  [x |-> element.x, y |-> element.y, variableName |-> element.variableName,
   data |-> element.data]

\* C30: the selected element is in step with the element list: in every reachable
\* state a selected element has the id of an element of the list, and its x, y,
\* variableName and data are those of that element.
C30_SelectedInStep ==
  selectedElement # <<>> =>
    /\ Find(elements, selectedElement[1].id) # <<>>
    /\ Shown(selectedElement[1]) = Shown(Find(elements, selectedElement[1].id)[1])

\* A new text element, renamed in the elements tab, then dragged: the selected
\* element carries the new name and the position the drag has committed
C30_Witness ==
  /\ selectedElement # <<>>
  /\ selectedElement[1].variableName.n = 9
  /\ lastOp.op = "mousemove"
  /\ selectedElement[1].id \in committed.dragging
  /\ selectedElement[1].x = committed.el[selectedElement[1].id].x
  /\ selectedElement[1].x # 50
  /\ Find(elements, selectedElement[1].id) = selectedElement


(***************************************************************************)
(* C31 - C37                                                               *)
(***************************************************************************)
\* C31: after 'new template' or 'load template' nothing is selected: in the state
\* right after createNewTemplate or loadTemplate neither an element nor the
\* background is selected, whatever was selected before.
C31_NothingSelectedAfterReset ==
  [][(OpStep("createNewTemplate") \/ OpStep("loadTemplate")) =>
       (selectedElement' = <<>> /\ ~isBackgroundSelected')]_vars

\* What has to be on the canvas for the export to show the whole template
Everything ==
  TextsOf(elements) \cup ImagesWithSrc(elements)
    \cup (IF TruthyStr(canvasConfig.backgroundImage) THEN {BackgroundLoad} ELSE {})

\* C32: the raster export is produced only after everything has been drawn: when the
\* image data has been read and the download triggered, the background image and
\* every image element that has a source were on the canvas, in whatever order the
\* image load callbacks arrive.
C32_ExportAfterEverythingDrawn ==
  exportJob.downloaded # <<>> =>
    (Everything \ TextsOf(elements)) \subseteq exportJob.downloaded[1]

\* C33: exporting a canvas without a background image draws every element and
\* triggers the download, as it does with a background image once that has loaded;
\* the 'Export failed' path is not taken.
C33_ExportWithoutBackground ==
  (exportJob.started /\ ~TruthyStr(canvasConfig.backgroundImage)) =>
    /\ ~exportJob.failed
    /\ exportJob.downloaded # <<>>
    /\ TextsOf(elements) \subseteq exportJob.drawn

\* A dialog is disabled: its loading flag, or the load modal's deleting flag, is set
Busy == dialog.isLoading \/ dialog.deletingId # ""

\* C34: the busy flag always clears: once a save, update, template-list load,
\* template delete or scheduler request has completed, with success or with a
\* failure, the dialog's loading / deleting flag is eventually false again.
C34_BusyFlagClears ==
  \A i \in 1..MaxSteps :
    (i \in DOMAIN requests /\ requests[i].status # "pending") ~> ~Busy

\* A save has failed: the save dialog is still in front, shows the failure and can
\* be used again
C34_Witness ==
  /\ dialog.kind = "save"
  /\ dialog.open
  /\ ~Busy
  /\ dialog.error = "Failed to save template"
  /\ \E i \in DOMAIN requests :
       requests[i].api = "saveTemplate" /\ requests[i].status = "failed"


\* C35: in the editor a current template id that is not empty, which is what the
\* Update action targets, is the id of a template that is still in storage
C35_CurrentTemplateStored ==
  (InEditor /\ currentTemplateId # "") => currentTemplateId \in server.templates

\* The open template deleted through the Load dialog
C35_DeletedThroughDialog ==
  /\ InEditor
  /\ dialog.kind = "load"
  /\ currentTemplateId = "t1"
  /\ "t1" \notin server.templates
  /\ \E i \in DOMAIN requests :
       /\ requests[i].api = "deleteTemplate"
       /\ requests[i].instance = dialog.instance
       /\ requests[i].id = "t1"
       /\ requests[i].status = "ok"


\* The number on the button of the selected filter
ShownCount(ls) ==
  IF ls.selectedCategoryId = Null THEN Cardinality(ls.templates)
  ELSE IF ls.selectedCategoryId = "uncategorized" THEN uncategorizedCount(ls)
  ELSE categoryTemplateCount(ls, ls.selectedCategoryId)

\* C36: 'All Templates' lists every template, a category lists exactly its templates,
\* 'Uncategorized' lists exactly the templates without a category, and the number of
\* listed templates is the number on the selected button
C36_FilterShowsItsCount ==
  /\ lists.selectedCategoryId = Null => filteredTemplates(lists) = lists.templates
  /\ lists.selectedCategoryId \in lists.categories =>
       filteredTemplates(lists) = InCategory(lists, lists.selectedCategoryId)
  /\ lists.selectedCategoryId = "uncategorized" =>
       filteredTemplates(lists) = Uncategorized(lists)
  /\ Cardinality(filteredTemplates(lists)) = ShownCount(lists)

\* C36 with 'All Templates' or a category selected
C36_AllAndCategories ==
  lists.selectedCategoryId # "uncategorized" => C36_FilterShowsItsCount


\* The variable names of the elements of a list
NamesOf(els) == {els[i].variableName : i \in DOMAIN els}

\* C37: the variable name given to a newly added element differs from the variable
\* name of every element already in the list
C37_NewNameIsFresh ==
  [][(OpStep("addTextElement") \/ OpStep("addImageElement")) =>
       elements'[Len(elements')].variableName \notin NamesOf(elements)]_vars

\* Two elements of the list with one variable name
C37_NameTwice ==
  \E i, j \in DOMAIN elements :
    i # j /\ elements[i].variableName = elements[j].variableName

====
